---- MODULE Spec2Model ----
(***************************************************************************)
(* A model of blazy's PHREEQC database parser (blazy/phreeqc/parser.py,    *)
(* class datParser) with the helpers it uses from blazy/chemistry.py and   *)
(* blazy/helpers.py.                                                       *)
(*                                                                         *)
(* Text is modelled as TLA+ strings, read character by character with Len, *)
(* SubSeq and \o, so that the regular expressions and the str methods of   *)
(* the source are computed on the same characters the program sees.        *)
(* A list is a sequence, a set a set, a dict a function whose domain is    *)
(* the set of its keys.  Line numbers are 0-based, as in the source.       *)
(***************************************************************************)
EXTENDS Integers, Sequences, FiniteSets, TLC

\* ------------------------------------------------------------------ bounds

\* The largest number of target elements given to one query.
MaxTargets == 2
\* The largest number of columns of an input table.
MaxCols == 2
\* The longest file the section index is built from, in lines.
MaxLines == 4
\* The longest list of phases given to add_EQUILIBRIUM_PHASES.
MaxPhases == 3
\* The most rows of a table given to make_PHREEQC_input.
MaxRows == 2

\* ------------------------------------------------------------------- state

\* The attributes of one datParser instance, and the call made on it.
\*   path, name                 the database file and its name
\*   db                         the loaded lines
\*   sections                   {SECTION: (startline, endline)}
\*   master_species_table, element_2_master, element_2_master_nocharge,
\*   master_2_element, master_nocharge_2_element
\*                              the dicts of get_SOLUTION_MASTER_SPECIES
\*   exempt_inputs              self._exempt_inputs
\*   phases                     self.phases, which get_PHASES sets: [set |-> FALSE]
\*                              until then
\*   input_str                  self.input_str, which make_PHREEQC_input sets:
\*                              [set |-> FALSE] until then
\*   workers                    the threads that share the instance, each with
\*                              the make_PHREEQC_input call it runs
\*   call                       the call in hand: its arguments and what it gave
\*                              (returned value or raised error, warnings issued)
VARIABLES path, name, db, sections, master_species_table, element_2_master,
          element_2_master_nocharge, master_2_element, master_nocharge_2_element,
          exempt_inputs, phases, input_str, workers, call

\* The attributes __init__ sets and no method assigns again.
tables == <<path, name, db, sections, master_species_table, element_2_master,
            element_2_master_nocharge, master_2_element, master_nocharge_2_element,
            exempt_inputs>>

vars == <<tables, phases, input_str, workers, call>>

\* F(v), with v worked out once however often F refers to it: a value the
\* code binds to a local name and reads several times.
Bound(v, F(_)) == CHOOSE y \in {F(x) : x \in {v}} : TRUE

\* ------------------------------------------------------- characters, str

UPPER == {"A", "B", "C", "D", "E", "F", "G", "H", "I", "J", "K", "L", "M",
          "N", "O", "P", "Q", "R", "S", "T", "U", "V", "W", "X", "Y", "Z"}
LOWER == {"a", "b", "c", "d", "e", "f", "g", "h", "i", "j", "k", "l", "m",
          "n", "o", "p", "q", "r", "s", "t", "u", "v", "w", "x", "y", "z"}
DIGIT == {"0", "1", "2", "3", "4", "5", "6", "7", "8", "9"}
\* The characters str.split(), str.strip() and friends treat as whitespace.
WHITESPACE == {" ", "\t"}

\* s[i-1] in Python: the i-th character (1-based here).
Char(s, i) == SubSeq(s, i, i)

\* s[i-1:] in Python: the text from the i-th character on.
From(s, i) == SubSeq(s, i, Len(s))

\* str.find(sub, i-1) + 1: the place of the first occurrence of sub in s at or
\* after place i, 0 when there is none.
RECURSIVE find(_, _, _)
find(s, sub, i) ==
    IF i + Len(sub) - 1 > Len(s) THEN 0
    ELSE IF SubSeq(s, i, i + Len(sub) - 1) = sub THEN i
    ELSE find(s, sub, i + 1)

\* `sub in s` for two str.
contains(sub, s) == find(s, sub, 1) # 0

\* s.startswith(prefix)
startswith(s, prefix) == Len(prefix) <= Len(s) /\ SubSeq(s, 1, Len(prefix)) = prefix

\* s.replace(old, new): every non-overlapping occurrence, left to right.  (No
\* call of the source passes an empty `old`.)
RECURSIVE replace(_, _, _)
replace(s, old, new) ==
    LET i == find(s, old, 1)
    IN IF old = "" \/ i = 0 THEN s
       ELSE SubSeq(s, 1, i - 1) \o new \o replace(From(s, i + Len(old)), old, new)

\* s.split(sep): the pieces between the occurrences of sep, empty ones kept.
RECURSIVE split(_, _)
split(s, sep) ==
    LET i == find(s, sep, 1)
    IN IF i = 0 THEN <<s>>
       ELSE <<SubSeq(s, 1, i - 1)>> \o split(From(s, i + Len(sep)), sep)

\* s.lstrip()
RECURSIVE lstrip(_)
lstrip(s) == IF s # "" /\ Char(s, 1) \in WHITESPACE THEN lstrip(From(s, 2)) ELSE s

\* s.rstrip()
RECURSIVE rstrip(_)
rstrip(s) ==
    IF s # "" /\ Char(s, Len(s)) \in WHITESPACE THEN rstrip(SubSeq(s, 1, Len(s) - 1))
    ELSE s

\* The length of the longest prefix of s made of characters of `chars`.
RECURSIVE span(_, _)
span(s, chars) ==
    IF s # "" /\ Char(s, 1) \in chars THEN 1 + span(From(s, 2), chars) ELSE 0

\* s.split(): the pieces between runs of whitespace, none of them empty.
RECURSIVE split_ws(_)
split_ws(s) ==
    LET t == lstrip(s)
        n == span(t, {Char(t, i) : i \in 1..Len(t)} \ WHITESPACE)
    IN IF t = "" THEN <<>> ELSE <<SubSeq(t, 1, n)>> \o split_ws(From(t, n + 1))

\* The elements of a list, as a set.
Range(seq) == {seq[i] : i \in DOMAIN seq}

\* The empty dict.
EmptyDict == [k \in {} |-> k]

\* d[k] = v on a dict: the key is added, or its value replaced.
Put(d, k, v) == (k :> v) @@ d

\* ---------------------------------------------------- blazy/helpers.py

\* issubset(target, reference)
issubset(target, reference) == target \subseteq reference

\* --------------------------------------------------- blazy/chemistry.py

valid_elements ==
    {"H", "He", "Li", "Be", "B", "C", "N", "O", "F", "Ne", "Na", "Mg",
     "Al", "Si", "P", "S", "Cl", "Ar", "K", "Ca", "Sc", "Ti", "V", "Cr",
     "Mn", "Fe", "Co", "Ni", "Cu", "Zn", "Ga", "Ge", "As", "Se", "Br",
     "Kr", "Rb", "Sr", "Y", "Zr", "Nb", "Mo", "Tc", "Ru", "Rh", "Pd",
     "Ag", "Cd", "In", "Sn", "Sb", "Te", "I", "Xe", "Cs", "Ba", "La",
     "Ce", "Pr", "Nd", "Pm", "Sm", "Eu", "Gd", "Tb", "Dy", "Ho", "Er",
     "Tm", "Yb", "Lu", "Hf", "Ta", "W", "Re", "Os", "Ir", "Pt", "Au",
     "Hg", "Tl", "Pb", "Bi", "Po", "At", "Rn", "Fr", "Ra", "Ac", "Th",
     "Pa", "U", "Np", "Pu", "Am", "Cm", "Bk", "Cf", "Es", "Fm", "Md",
     "No", "Lr", "Rf", "Db", "Sg", "Bh", "Hs", "Mt", "Ds", "Rg", "Cn",
     "Uut", "Uuq", "Uup", "Uuh", "Uuo"}

\* The smaller of two numbers.
Min(a, b) == IF a <= b THEN a ELSE b

\* get_elements(molecule): set(re.findall('[A-Z][a-z]{0,2}', molecule)).  The
\* scan goes left to right; a match is an upper-case letter and the (at most
\* two) lower-case letters right after it, and the scan goes on after the match.
RECURSIVE get_elements(_)
get_elements(molecule) ==
    IF molecule = "" THEN {}
    ELSE IF Char(molecule, 1) \in UPPER
         THEN LET n == 1 + Min(2, span(From(molecule, 2), LOWER))
              IN {SubSeq(molecule, 1, n)} \cup get_elements(From(molecule, n + 1))
         ELSE get_elements(From(molecule, 2))

\* int(s) for a str of digits.
RECURSIVE int_of(_)
int_of(s) ==
    IF s = "" THEN 0
    ELSE 10 * int_of(SubSeq(s, 1, Len(s) - 1))
             + (find("0123456789", Char(s, Len(s)), 1) - 1)

\* The characters of the class [A-z0-9()]: A-z takes in the characters that
\* lie between Z and a (of which the backquote, that no molecule here holds,
\* cannot be written in a string of the model).
PARENS_CLASS ==
    UPPER \cup LOWER \cup DIGIT \cup {"(", ")", "[", "\\", "]", "^", "_"}

\* The last place in lo..hi where s holds ')', 0 when there is none.
RECURSIVE last_close(_, _, _)
last_close(s, lo, hi) ==
    IF hi < lo THEN 0
    ELSE IF Char(s, hi) = ")" THEN hi
    ELSE last_close(s, lo, hi - 1)

\* The match of '\(([A-z0-9()]+)\)([0-9]+)?' that starts at place i of s: the
\* group takes the longest run of the class that a ')' still ends, then come
\* the digits; `end` is the last place of the match.
parens_match(s, i) ==
    LET j == last_close(s, i + 2, i + span(From(s, i + 1), PARENS_CLASS))
        digits == span(From(s, j + 1), DIGIT)
    IN IF Char(s, i) = "(" /\ j # 0
       THEN [found |-> TRUE, s |-> SubSeq(s, i + 1, j - 1),
             ns |-> SubSeq(s, j + 1, j + digits), end |-> j + digits]
       ELSE [found |-> FALSE, s |-> "", ns |-> "", end |-> i]

\* parens.findall(molecule), from place i on: the (s, ns) of the matches.
RECURSIVE parens_findall(_, _)
parens_findall(molecule, i) ==
    IF i > Len(molecule) THEN <<>>
    ELSE Bound(parens_match(molecule, i), LAMBDA m :
             IF m.found
             THEN <<[s |-> m.s, ns |-> m.ns]>> \o parens_findall(molecule, m.end + 1)
             ELSE parens_findall(molecule, i + 1))

\* parens.sub('', molecule), from place i on: what the matches leave.
RECURSIVE parens_sub(_, _)
parens_sub(molecule, i) ==
    IF i > Len(molecule) THEN ""
    ELSE Bound(parens_match(molecule, i), LAMBDA m :
             IF m.found THEN parens_sub(molecule, m.end + 1)
             ELSE Char(molecule, i) \o parens_sub(molecule, i + 1))

\* re.compile('([A-Z][a-z]?)([0-9]+)?').findall(rem): the (e, ns) of the
\* matches; e is an upper-case letter and the lower-case letter right after
\* it when there is one, ns the digits that follow.
RECURSIVE stoich_findall(_)
stoich_findall(rem) ==
    IF rem = "" THEN <<>>
    ELSE IF Char(rem, 1) \in UPPER
         THEN LET e == 1 + Min(1, span(From(rem, 2), LOWER))
                  digits == span(From(rem, e + 1), DIGIT)
              IN <<[e |-> SubSeq(rem, 1, e), ns |-> SubSeq(rem, e + 1, e + digits)]>>
                     \o stoich_findall(From(rem, e + digits + 1))
         ELSE stoich_findall(From(rem, 2))

\* The loop over stoich.findall(rem): each element is entered with 0 when it
\* is new, and its count times n is added.
RECURSIVE stoich_loop(_, _, _)
stoich_loop(found, comp, n) ==
    IF found = <<>> THEN comp
    ELSE LET e == Head(found).e
             ns == IF Head(found).ns = "" THEN 1 * n ELSE int_of(Head(found).ns) * n
             had == IF e \in DOMAIN comp THEN comp[e] ELSE 0
         IN stoich_loop(Tail(found), Put(comp, e, had + ns), n)

\* The last place k of rem, at or below hi, where a sign stands with a digit
\* right after it; 0 when there is none.
RECURSIVE last_valence(_, _)
last_valence(rem, hi) ==
    IF hi < 1 THEN 0
    ELSE IF Char(rem, hi) \in {"+", "-"} /\ hi < Len(rem) /\ Char(rem, hi + 1) \in DIGIT
    THEN hi
    ELSE last_valence(rem, hi - 1)

\* decompose_molecule(molecule, n) for an int n (a str ns is n = 1 when
\* empty, else int(ns)): comp without its 'valence' entry, and that entry
\* ("" when comp has none).  Of the groups in parentheses the last one alone
\* stays in comp.
RECURSIVE decompose_molecule(_, _)
decompose_molecule(molecule, n) ==
    LET ps == parens_findall(molecule, 1)
        rem == parens_sub(molecule, 1)
        last == ps[Len(ps)]
        inner == decompose_molecule(last.s,
                     IF last.ns = "" THEN 1 ELSE int_of(last.ns)).comp
        grouped == IF Len(ps) > 0
                   THEN [k \in DOMAIN inner |-> inner[k] * n] ELSE EmptyDict
        k == last_valence(rem, Len(rem))
    IN [comp |-> stoich_loop(stoich_findall(rem), grouped, n),
        valence |-> IF k = 0 THEN "" ELSE SubSeq(rem, k, k + 1)]

\* --------------------------------------- blazy/phreeqc/parser.py, functions

\* [c for c in side.split(' ') if c not in ['+', '']]
IsSpecies(c) == c \notin {"+", ""}

\* side_tokens, were the '+' between the species kept as tokens.
side_tokens_with_plus(side) == SelectSeq(split(side, " "), LAMBDA c : c # "")

\* The inner list of reacsplit: the species tokens of one side of a reaction.
side_tokens(side) == SelectSeq(split(side, " "), IsSpecies)

\* reacsplit(reac): the list of the sides' token lists, one per piece between
\* '=' signs.
reacsplit(reac) ==
    LET sides == split(reac, "=")
    IN [i \in DOMAIN sides |-> side_tokens(sides[i])]

\* re.compile('^[0-9]+').sub('', species): the leading digits are removed.
remove_stoich(species) == From(species, span(species, DIGIT) + 1)

\* re.compile('[+-][0-9]?').sub('', v): every sign, with the digit right after
\* it when there is one, is removed, wherever it stands.
RECURSIVE novalence_sub(_)
novalence_sub(v) ==
    IF v = "" THEN ""
    ELSE IF Char(v, 1) \in {"+", "-"}
         THEN novalence_sub(From(v, IF Len(v) >= 2 /\ Char(v, 2) \in DIGIT THEN 3 ELSE 2))
         ELSE Char(v, 1) \o novalence_sub(From(v, 2))

\* re.compile('[A-Z_]+$').match(line): the whole line is upper-case letters and
\* underscores, at least one (a line holds no line break after load).
sectionhead_match(line) ==
    line # "" /\ span(line, UPPER \cup {"_"}) = Len(line)

\* ------------------------------------------------- datParser: construction

NotEmpty(line) == line # ""
NotComment(line) == Char(line, 1) # "#"

\* datParser.load(database, keep_comments=False), on the lines of the file:
\* trailing whitespace is stripped, then empty lines and lines that start with
\* '#' are dropped.
load(file) ==
    LET stripped == [i \in DOMAIN file |-> rstrip(file[i])]
    IN SelectSeq(SelectSeq(stripped, NotEmpty), NotComment)

\* find_sections_from, were `ilast = i; headlast = line.strip()` done for the
\* first header only.
RECURSIVE find_sections_from_first(_, _, _, _)
find_sections_from_first(lines, i, headind, last) ==
    IF i >= Len(lines) THEN headind
    ELSE IF sectionhead_match(lines[i + 1])
         THEN find_sections_from_first(lines, i + 1,
                  IF last # <<>> THEN Put(headind, last[2], <<last[1], i>>) ELSE headind,
                  IF last # <<>> THEN last ELSE <<i, lines[i + 1]>>)
         ELSE find_sections_from_first(lines, i + 1, headind, last)

\* find_sections_from, were the section that is open at the end of the file
\* closed there.
RECURSIVE find_sections_from_eof(_, _, _, _)
find_sections_from_eof(lines, i, headind, last) ==
    IF i >= Len(lines)
    THEN IF last # <<>> THEN Put(headind, last[2], <<last[1], i>>) ELSE headind
    ELSE IF sectionhead_match(lines[i + 1])
         THEN find_sections_from_eof(lines, i + 1,
                  IF last # <<>> THEN Put(headind, last[2], <<last[1], i>>) ELSE headind,
                  <<i, lines[i + 1]>>)
         ELSE find_sections_from_eof(lines, i + 1, headind, last)

\* The loop of find_sections from line i (0-based) on.  last is <<ilast,
\* headlast>>, or <<>> while ilast is None.
RECURSIVE find_sections_from(_, _, _, _)
find_sections_from(lines, i, headind, last) ==
    IF i >= Len(lines) THEN headind
    ELSE IF sectionhead_match(lines[i + 1])
         THEN find_sections_from(lines, i + 1,
                  IF last # <<>> THEN Put(headind, last[2], <<last[1], i>>) ELSE headind,
                  <<i, lines[i + 1]>>)
         ELSE find_sections_from(lines, i + 1, headind, last)

\* datParser.find_sections(): {SECTION: (startline, endline)}
find_sections(lines) == find_sections_from(lines, 0, EmptyDict, <<>>)

\* The lines get_section yields for a section of the index `secs` of `lines`:
\* those strictly between its start and its end, cut at the first '#' when
\* remove_comments.
section_lines(lines, secs, section, remove_comments) ==
    LET lo == secs[section][1] + 1
        hi == secs[section][2]
    IN [j \in 1..(hi - lo) |->
           IF remove_comments THEN split(lines[lo + j], "#")[1] ELSE lines[lo + j]]

\* The loop of get_SOLUTION_MASTER_SPECIES that fills master_species_table:
\* table[sp[0]] = sp[1:] for each line's whitespace-separated fields sp.
RECURSIVE master_species_table_of(_, _)
master_species_table_of(entries, table) ==
    IF entries = <<>> THEN table
    ELSE LET sp == split_ws(Head(entries))
         IN master_species_table_of(Tail(entries), Put(table, sp[1], Tail(sp)))

\* The keys of master_species_table in the order a Python dict keeps them: the
\* order in which each key was first inserted.
RECURSIVE master_species_keys(_, _)
master_species_keys(entries, keys) ==
    IF entries = <<>> THEN keys
    ELSE LET k == split_ws(Head(entries))[1]
         IN master_species_keys(Tail(entries),
                IF k \in Range(keys) THEN keys ELSE Append(keys, k))

\* inverted, were a master species mapped to itself and not to its element.
RECURSIVE inverted_to_master(_, _, _, _)
inverted_to_master(keys, e2m, charge, acc) ==
    IF keys = <<>> THEN acc
    ELSE LET v == IF charge THEN e2m[Head(keys)] ELSE novalence_sub(e2m[Head(keys)])
         IN inverted_to_master(Tail(keys), e2m, charge, Put(acc, v, v))

\* {f(v): k for k, v in e2m.items()}: a later item replaces an earlier one
\* under the same key.  charge tells whether f keeps the charge.
RECURSIVE inverted(_, _, _, _)
inverted(keys, e2m, charge, acc) ==
    IF keys = <<>> THEN acc
    ELSE LET k == Head(keys)
             v == IF charge THEN e2m[k] ELSE novalence_sub(e2m[k])
         IN inverted(Tail(keys), e2m, charge, Put(acc, v, k))

\* The four dicts get_SOLUTION_MASTER_SPECIES builds, from the lines of the
\* SOLUTION_MASTER_SPECIES section.
master_tables(entries) ==
    LET table == master_species_table_of(entries, EmptyDict)
        keys == master_species_keys(entries, <<>>)
        e2m == [k \in DOMAIN table |-> table[k][1]]
    IN [master_species_table |-> table,
        element_2_master |-> e2m,
        element_2_master_nocharge |-> [k \in DOMAIN e2m |-> novalence_sub(e2m[k])],
        master_2_element |-> inverted(keys, e2m, TRUE, EmptyDict),
        master_nocharge_2_element |-> inverted(keys, e2m, FALSE, EmptyDict)]

\* self._exempt_inputs as __init__ writes it: Python joins the adjacent
\* literals '-water' 'density' (no comma between them) into one string.
exempt_inputs_list ==
    <<"temperature", "temp",
      "pressure", "press",
      "pH", "pe",
      "redox", "O(0)", "-water" \o "density", "unit", "units">>

\* --------------------------------------------------- datParser: the queries

\* What a call gives: how it ended ("ok" or the name of the exception raised)
\* and the value returned.
Returned(v) == [outcome |-> "ok", value |-> v]
Raised(e) == [outcome |-> e, value |-> <<>>]

\* datParser.get_section(section, remove_comments): KeyError when the section
\* is not in self.sections, else the lines of the section.
get_section(section, remove_comments) ==
    IF section \notin DOMAIN sections THEN Raised("KeyError")
    ELSE Returned(section_lines(db, sections, section, remove_comments))

\* The keys of the dict find_sections returns, in the order the dict keeps
\* them: a header is inserted when the next header is met, and keeps its
\* place when it is inserted again.  last is <<headlast>>, or <<>> for None.
RECURSIVE section_keys_from(_, _, _)
section_keys_from(lines, keys, last) ==
    IF lines = <<>> THEN keys
    ELSE IF sectionhead_match(Head(lines))
         THEN section_keys_from(Tail(lines),
                  IF last # <<>> /\ last[1] \notin Range(keys)
                  THEN Append(keys, last[1]) ELSE keys,
                  <<Head(lines)>>)
         ELSE section_keys_from(Tail(lines), keys, last)

\* self.sections.keys()
section_keys == section_keys_from(db, <<>>, <<>>)

NoMessage == [section |-> "", secnames |-> <<>>]

\* KeyError_message, were the valid names left out of it.
KeyError_message_bare(section) == [section |-> section, secnames |-> <<>>]

\* The message of the KeyError of get_section, the parts of it that vary:
\* f"'{section}' is not a valid section. Please choose one of: {secnames}"
KeyError_message(section) == [section |-> section, secnames |-> section_keys]

\* get_section is a generator function: the call makes a generator and runs
\* none of the body.  One step of the generator made for `section`, which has
\* yielded `yielded` so far: the test of the section comes with the first
\* step; then each step yields the next line of the range, or ends.
get_section_next(section, remove_comments, yielded) ==
    IF section \notin DOMAIN sections
    THEN [outcome |-> "KeyError", yielded |-> yielded,
          message |-> KeyError_message(section)]
    ELSE LET lines == section_lines(db, sections, section, remove_comments)
         IN IF Len(yielded) < Len(lines)
            THEN [outcome |-> "yielded", yielded |-> Append(yielded, lines[Len(yielded) + 1]),
                  message |-> NoMessage]
            ELSE [outcome |-> "StopIteration", yielded |-> yielded,
                  message |-> NoMessage]

\* targets=None, the default of the queries: a value no caller passes as a set
\* of elements.
None == {"<None>"}

\* datParser._targets_handler(targets), for targets None or a list or set of
\* str.
targets_handler(targets) == targets

\* The loop of parse_SOLUTION_SPECIES over the lines ps: a line with '=' opens
\* an entry, any other line is appended to the open entry (out[None] is a
\* KeyError).  entry is <<>> for None.
RECURSIVE parse_SOLUTION_SPECIES_from(_, _, _)
parse_SOLUTION_SPECIES_from(ps, out, entry) ==
    IF ps = <<>> THEN Returned(out)
    ELSE LET p == Head(ps)
         IN IF contains("=", p)
            THEN parse_SOLUTION_SPECIES_from(Tail(ps), Put(out, lstrip(p), <<>>),
                                             <<lstrip(p)>>)
            ELSE IF entry = <<>> THEN Raised("KeyError")
            ELSE parse_SOLUTION_SPECIES_from(Tail(ps),
                     [out EXCEPT ![entry[1]] = Append(@, lstrip(p))], entry)

\* datParser.parse_SOLUTION_SPECIES(remove_comments)
parse_SOLUTION_SPECIES(remove_comments) ==
    LET sec == get_section("SOLUTION_SPECIES", remove_comments)
    IN IF sec.outcome # "ok" THEN sec
       ELSE parse_SOLUTION_SPECIES_from(sec.value, EmptyDict, <<>>)

\* products, were the reactants taken instead: `prod, _ = reacsplit(s)`.
products_reactants(s) == reacsplit(s)[1]

\* `_, prod = reacsplit(s)`: the products of entry s, the second of its two
\* sides.
products(s) == reacsplit(s)[2]

\* species_wanted, were include_foreign ignored and foreign elements never
\* allowed.
species_wanted_never_foreign(pels, targets, include_foreign) ==
    issubset(pels, targets) /\ pels \cap targets # {}

\* The test of get_SOLUTION_SPECIES on the elements pels of one product.
species_wanted(pels, targets, include_foreign) ==
    IF include_foreign THEN pels \cap targets # {}
    ELSE issubset(pels, targets) /\ pels \cap targets # {}

\* datParser.get_SOLUTION_SPECIES(targets, include_foreign)
get_SOLUTION_SPECIES(targets0, include_foreign) ==
    LET targets == targets_handler(targets0)
        parsed == parse_SOLUTION_SPECIES(TRUE)
        entries == DOMAIN parsed.value
    IN IF parsed.outcome # "ok" THEN parsed
       ELSE IF \E s \in entries : Len(reacsplit(s)) # 2 THEN Raised("ValueError")
       ELSE LET wanted(p) ==
                    \/ targets = None
                    \/ species_wanted(get_elements(p), targets, include_foreign)
                out_species ==
                    UNION {{remove_stoich(p) : p \in {q \in Range(products(s)) : wanted(q)}} :
                               s \in entries}
            IN Returned(out_species \ {""})

\* The loop of parse_PHASES over the lines ps: a line that does not start with
\* a tab or a space opens the entry named by its first field, any other line
\* is appended to the open entry.  entry is <<>> for None.
RECURSIVE parse_PHASES_from(_, _, _)
parse_PHASES_from(ps, out, entry) ==
    IF ps = <<>> THEN Returned(out)
    ELSE LET p == Head(ps)
         IN IF ~(startswith(p, "\t") \/ startswith(p, " "))
            THEN IF split_ws(p) = <<>> THEN Raised("IndexError")
                 ELSE parse_PHASES_from(Tail(ps), Put(out, split_ws(p)[1], <<>>),
                                        <<split_ws(p)[1]>>)
            ELSE IF entry = <<>> THEN Raised("KeyError")
            ELSE parse_PHASES_from(Tail(ps),
                     [out EXCEPT ![entry[1]] = Append(@, lstrip(p))], entry)

\* datParser.parse_PHASES(remove_comments)
parse_PHASES(remove_comments) ==
    LET sec == get_section("PHASES", remove_comments)
    IN IF sec.outcome # "ok" THEN sec
       ELSE parse_PHASES_from(sec.value, EmptyDict, <<>>)

\* `reacsplit(i[0])[0][0]` can be evaluated: the entry has a first detail line
\* and the first side of it holds a token.
has_formula(i) == i # <<>> /\ reacsplit(i[1])[1] # <<>>

\* phase_formula = reacsplit(i[0])[0][0]: the first token of the first side of
\* the entry's first detail line.
phase_formula(i) == reacsplit(i[1])[1][1]

\* The first loop of get_PHASES: the (name, formula) pairs of the phases whose
\* formula holds some target as a substring.
possible_phases(phs, targets) ==
    {<<p, phase_formula(phs[p])>> :
        p \in {q \in DOMAIN phs : \E t \in targets : contains(t, phase_formula(phs[q]))}}

\* ftargets_of, were C left out of the union.
ftargets_without_C(targets) == targets \cup {"H", "O"}

\* ftargets = targets.union(['H', 'C', 'O'])
ftargets_of(targets) == targets \cup {"H", "C", "O"}

\* datParser.get_PHASES(targets, allow_HCO).  value is what is returned, attr
\* what self.phases is after the call.
get_PHASES(targets0, allow_HCO) ==
    LET parsed == parse_PHASES(TRUE)
        targets == targets_handler(targets0)
        phs == parsed.value
        attr == [set |-> TRUE, value |-> phs]
        possible == possible_phases(phs, targets)
    IN IF parsed.outcome # "ok"
       THEN [outcome |-> parsed.outcome, value |-> <<>>, attr |-> phases]
       ELSE IF targets = None
       THEN [outcome |-> "ok", value |-> phs, attr |-> attr]
       ELSE IF targets # {} /\ \E p \in DOMAIN phs : ~has_formula(phs[p])
       THEN [outcome |-> "IndexError", value |-> <<>>, attr |-> attr]
       ELSE IF ~allow_HCO /\ possible # {}
       THEN \* ftargets is assigned only under `if allow_HCO:`
            [outcome |-> "UnboundLocalError", value |-> <<>>, attr |-> attr]
       ELSE [outcome |-> "ok",
             value |-> {pf[1] : pf \in {q \in possible :
                            issubset(get_elements(q[2]), ftargets_of(targets))}},
             attr |-> attr]

\* ------------------------------------------------ datParser: check_inputs

\* An input table (a pandas DataFrame) is the list of its columns, each with
\* its name and its data.  The names of a table, in order:
columns(inputs) == [i \in DOMAIN inputs |-> inputs[i].name]

\* `if uncertainty_id in k: k = k.replace(uncertainty_id, '')`
base_key(k0, uncertainty_id) ==
    IF contains(uncertainty_id, k0) THEN replace(k0, uncertainty_id, "") ELSE k0

\* is_retained, were the valid element names not looked up.
is_retained_no_elements(k) ==
    k \in Range(exempt_inputs) \/ Char(k, 1) = "-"

\* The first test of the loop of check_inputs: the column is kept as it is.
is_retained(k) ==
    k \in Range(exempt_inputs) \/ Char(k, 1) = "-" \/ k \in DOMAIN element_2_master

\* The message of the ValueError check_inputs raises: the parts of the text
\* that vary.
InvalidName(k) == [key |-> k, database |-> name]
NoError == [key |-> "", database |-> ""]

\* renamed, were the new name the element alone.
renamed_bare(k0, k, element) == element

\* kn = k0.replace(k, element): the new name of column k0, whose base key k
\* is translated to `element`.
renamed(k0, k, element) == replace(k0, k, element)

\* removed, were `changed = True` forgotten.
removed_unmarked(acc, k0) == [acc EXCEPT !.msg_rems = Append(@, k0)]

\* The branch `elif remove_failures:` of the loop on column k0: the removal is
\* noted, and the table marked as changed.
removed(acc, k0) == [acc EXCEPT !.msg_rems = Append(@, k0), !.changed = TRUE]

\* The loop of check_inputs over the column names ks.  acc holds retain,
\* final_names, msg_subs (each "old --> new" as <<old, new>>), msg_rems and
\* changed.
RECURSIVE check_inputs_loop(_, _, _, _)
check_inputs_loop(ks, acc, remove_failures, uncertainty_id) ==
    IF ks = <<>> THEN acc
    ELSE LET k0 == Head(ks)
             k == base_key(k0, uncertainty_id)
             rest == Tail(ks)
             kept(kn) == [acc EXCEPT !.retain = Append(@, k0),
                                     !.final_names = Append(@, kn)]
             substituted(kn) == [kept(kn) EXCEPT !.msg_subs = Append(@, <<k0, kn>>),
                                                 !.changed = TRUE]
         IN IF k \notin Range(exempt_inputs) /\ k = ""
            THEN \* k[0] of an empty str
                 [acc EXCEPT !.outcome = "IndexError"]
            ELSE IF is_retained(k)
            THEN check_inputs_loop(rest, kept(k0), remove_failures, uncertainty_id)
            ELSE IF k \in DOMAIN master_2_element
            THEN check_inputs_loop(rest, substituted(renamed(k0, k, master_2_element[k])),
                                   remove_failures, uncertainty_id)
            ELSE IF k \in DOMAIN master_nocharge_2_element
            THEN check_inputs_loop(rest,
                     substituted(renamed(k0, k, master_nocharge_2_element[k])),
                     remove_failures, uncertainty_id)
            ELSE IF remove_failures
            THEN check_inputs_loop(rest, removed(acc, k0), remove_failures, uncertainty_id)
            ELSE [acc EXCEPT !.outcome = "ValueError", !.error = InvalidName(k)]

\* inputs.loc[:, retain]: for each label of retain in turn, the columns of
\* that name.
RECURSIVE loc(_, _)
loc(inputs, retain) ==
    IF retain = <<>> THEN <<>>
    ELSE SelectSeq(inputs, LAMBDA c : c.name = Head(retain)) \o loc(inputs, Tail(retain))

\* The text of the warning of check_inputs: the parts of it that vary.
Warning(msg_subs, msg_rems) ==
    [database |-> name, subs |-> msg_subs, rems |-> msg_rems]

\* warnings_of, were the warning issued for removals only.
warnings_of_removals_only(msg_subs, msg_rems) ==
    IF Len(msg_rems) > 0 THEN <<Warning(msg_subs, msg_rems)>> ELSE <<>>

\* `if len(msg_rems + msg_subs) > 0: ... warnings.warn(msg)`: the warnings
\* check_inputs issues once the table has changed.
warnings_of(msg_subs, msg_rems) ==
    IF Len(msg_rems \o msg_subs) > 0 THEN <<Warning(msg_subs, msg_rems)>> ELSE <<>>

\* renamed_table, were the columns kept under their own name put before the
\* renamed ones.
renamed_table_grouped(selected, final_names) ==
    LET t == [i \in DOMAIN selected |->
                 [name |-> final_names[i], data |-> selected[i].data,
                  same |-> final_names[i] = selected[i].name]]
        plain(c) == [name |-> c.name, data |-> c.data]
        both == SelectSeq(t, LAMBDA c : c.same) \o SelectSeq(t, LAMBDA c : ~c.same)
    IN [i \in DOMAIN both |-> plain(both[i])]

\* The columns check_inputs returns once the table has changed:
\* `inputs = inputs.loc[:, retain]; inputs.columns = final_names`.
renamed_table(selected, final_names) ==
    [i \in DOMAIN selected |-> [name |-> final_names[i], data |-> selected[i].data]]

\* datParser.check_inputs(inputs, remove_failures, uncertainty_id).  value is
\* the table returned, warnings the warnings issued, error the message of the
\* exception raised, caller_inputs the table the caller passed, as the call
\* leaves it (no statement of check_inputs writes to it: `inputs = ...` binds
\* the local name to a new table).
check_inputs(inputs, remove_failures, uncertainty_id) ==
    Bound(check_inputs_loop(columns(inputs),
              [outcome |-> "ok", error |-> NoError, retain |-> <<>>,
               final_names |-> <<>>, msg_subs |-> <<>>, msg_rems |-> <<>>,
               changed |-> FALSE],
              remove_failures, uncertainty_id),
          LAMBDA r :
        LET warned == warnings_of(r.msg_subs, r.msg_rems)
            out(o, v, w) == [outcome |-> o, value |-> v, warnings |-> w,
                             error |-> r.error, caller_inputs |-> inputs]
        IN IF r.outcome # "ok" THEN out(r.outcome, <<>>, <<>>)
           ELSE IF ~r.changed THEN out("ok", inputs, <<>>)
           ELSE Bound(loc(inputs, r.retain), LAMBDA selected :
                    IF Len(selected) # Len(r.final_names)
                    THEN \* `inputs.columns = final_names`: length mismatch
                         out("ValueError", <<>>, warned)
                    ELSE out("ok", renamed_table(selected, r.final_names), warned)))

\* The loop of get_target_elements over the column names ks.
RECURSIVE target_elements_loop(_, _, _)
target_elements_loop(ks, targets, uncertainty_id) ==
    IF ks = <<>> THEN Returned(targets)
    ELSE LET k == Head(ks)
         IN IF k \notin Range(exempt_inputs) /\ k = "" THEN Raised("IndexError")
            ELSE IF \/ k \in Range(exempt_inputs)
                    \/ Char(k, 1) = "-"
                    \/ contains(uncertainty_id, k)
            THEN target_elements_loop(Tail(ks), targets, uncertainty_id)
            ELSE IF k \notin DOMAIN element_2_master_nocharge THEN Raised("KeyError")
            ELSE target_elements_loop(Tail(ks),
                     targets \cup get_elements(element_2_master_nocharge[k]),
                     uncertainty_id)

\* dropped_OH, were H alone removed.
dropped_H_only(targets, drop_OH) == IF drop_OH THEN targets \ {"H"} ELSE targets

\* `targets.difference({'H', 'O'})` when drop_OH
dropped_OH(targets, drop_OH) == IF drop_OH THEN targets \ {"H", "O"} ELSE targets

\* datParser.get_target_elements(inputs, drop_OH, uncertainty_id)
get_target_elements(inputs, drop_OH, uncertainty_id) ==
    Bound(check_inputs(inputs, TRUE, "_std"), LAMBDA checked :
        LET out(o, v) == [outcome |-> o, value |-> v, warnings |-> checked.warnings]
        IN IF checked.outcome # "ok" THEN out(checked.outcome, <<>>)
           ELSE Bound(target_elements_loop(columns(checked.value), {}, uncertainty_id),
                      LAMBDA looped :
                    IF looped.outcome # "ok" THEN out(looped.outcome, <<>>)
                    ELSE out("ok", dropped_OH(looped.value, drop_OH) \cap valid_elements)))

\* ------------------------------------------- datParser: the PHREEQC input

\* A text is the list of its lines: the text is '\n'.join(lines), and
\* a + '\n' + b is the lines of a followed by the lines of b.  A line is its
\* text followed by the members of a set joined by ' ' (' '.join(set): the
\* members come in the order of the set's hashing, which differs from run to
\* run and is left open), or by a cell of the table printed as %.8e (cell is
\* <<data of the column, index label of the row>>).
Line(text) == [text |-> text, items |-> {}, cell |-> <<>>]
JoinedLine(text, items) == [text |-> text, items |-> items, cell |-> <<>>]
CellLine(text, cell) == [text |-> text, items |-> {}, cell |-> cell]

\* f"{n:d}" and str(n) of an int n >= 0
RECURSIVE str_int(_)
str_int(n) ==
    LET digit(d) == SubSeq("0123456789", d + 1, d + 1)
    IN IF n < 10 THEN digit(n) ELSE str_int(n \div 10) \o digit(n % 10)

\* f"{k:20s}": k, filled with blanks on the right up to the width.
RECURSIVE ljust(_, _)
ljust(k, width) == IF Len(k) >= width THEN k ELSE ljust(k \o " ", width)

\* io.make_solution(inputs, n) for row n of a table of numbers: the text ends
\* with a line break, so its last line is empty.
make_solution(inputs, n) ==
    <<Line("SOLUTION " \o str_int(n))>>
        \o [i \in DOMAIN inputs |->
               CellLine("    " \o ljust(inputs[i].name, 20), <<inputs[i].data, n>>)]
        \o <<Line("")>>

\* generate_SOLUTIONS, were the first row alone made a solution.
generate_SOLUTIONS_first_row(inputs, index) ==
    LET checked == check_inputs(inputs, TRUE, "_std")
    IN [outcome |-> checked.outcome,
        value |-> IF checked.outcome = "ok"
                  THEN <<make_solution(checked.value, index[1])>> ELSE <<>>,
        warnings |-> checked.warnings]

\* datParser.generate_SOLUTIONS(inputs), index being the index labels of the
\* rows of inputs: the list of the texts of the solutions.
generate_SOLUTIONS(inputs, index) ==
    Bound(check_inputs(inputs, TRUE, "_std"), LAMBDA checked :
        IF checked.outcome # "ok"
        THEN [outcome |-> checked.outcome, value |-> <<>>, warnings |-> checked.warnings]
        ELSE [outcome |-> "ok",
              value |-> [r \in DOMAIN index |-> make_solution(checked.value, index[r])],
              warnings |-> checked.warnings])

\* A declaration line of SELECTED_OUTPUT, appended when its flag is set.
declared(flag, text, items) == IF flag THEN <<JoinedLine(text, items)>> ELSE <<>>

\* selected_output_lines, were the activities declared before the molalities.
selected_output_lines_a_before_m(targets, species, phs, totals, molalities, activities, phases_flag) ==
    <<Line("SELECTED_OUTPUT"), Line("    -pH"), Line("    -temperature"),
      Line("    -alkalinity"), Line("    -ionic_strength")>>
        \o declared(totals, "    -totals ", targets)
        \o declared(activities, "    -a ", species)
        \o declared(molalities, "    -m ", species)
        \o declared(phases_flag, "    -si ", phs)

\* outstr of generate_SELECTED_OUTPUT: the header and the four fixed lines,
\* then the lines asked for.
selected_output_lines(targets, species, phs, totals, molalities, activities, phases_flag) ==
    <<Line("SELECTED_OUTPUT"), Line("    -pH"), Line("    -temperature"),
      Line("    -alkalinity"), Line("    -ionic_strength")>>
        \o declared(totals, "    -totals ", targets)
        \o declared(molalities, "    -m ", species)
        \o declared(activities, "    -a ", species)
        \o declared(phases_flag, "    -si ", phs)

\* datParser.generate_SELECTED_OUTPUT(targets, totals, molalities, activities,
\* phases, phase_targets, allow_HCO) for a set of targets.  attr is what
\* self.phases is after the call.
generate_SELECTED_OUTPUT(targets, totals, molalities, activities, phases_flag, phase_targets0, allow_HCO) ==
    LET phase_targets == IF phase_targets0 = None THEN targets ELSE phase_targets0
        \* `species = self.get_SOLUTION_SPECIES(targets).union(['H+', 'OH-'])`
        \* when molalities or activities, `phases = self.get_PHASES(...)` when
        \* phases
        unasked == [outcome |-> "ok", value |-> {}, attr |-> phases]
    IN Bound(IF molalities \/ activities
             THEN get_SOLUTION_SPECIES(targets, TRUE) ELSE unasked, LAMBDA found :
           IF found.outcome # "ok"
           THEN [outcome |-> found.outcome, value |-> <<>>, attr |-> phases]
           ELSE Bound(IF phases_flag
                      THEN get_PHASES(phase_targets, allow_HCO) ELSE unasked, LAMBDA ph :
                    IF ph.outcome # "ok"
                    THEN [outcome |-> ph.outcome, value |-> <<>>, attr |-> ph.attr]
                    ELSE [outcome |-> "ok",
                          value |-> selected_output_lines(targets,
                                        found.value \cup {"H+", "OH-"}, ph.value,
                                        totals, molalities, activities, phases_flag),
                          attr |-> ph.attr]))

\* phase_known, were every phase taken as one of the database.
phase_known_always(p, phs) == TRUE

\* `p[0] not in self.get_PHASES()`, negated: the phase is an entry of PHASES.
phase_known(p, phs) == p[1] \in DOMAIN phs

\* The loop of add_EQUILIBRIUM_PHASES over the phases ps, each <<name,
\* target_log10SI>>: get_PHASES() is called for each; a phase that is not in
\* the database is printed as removed (printed holds the names), the others
\* are kept.
RECURSIVE valid_phases_loop(_, _)
valid_phases_loop(ps, acc) ==
    IF ps = <<>> THEN acc
    ELSE Bound(get_PHASES(None, TRUE), LAMBDA all :
             IF all.outcome # "ok" THEN [acc EXCEPT !.outcome = all.outcome]
             ELSE IF ~phase_known(Head(ps), all.value)
             THEN valid_phases_loop(Tail(ps),
                      [acc EXCEPT !.printed = Append(@, Head(ps)[1]), !.attr = all.attr])
             ELSE valid_phases_loop(Tail(ps),
                      [acc EXCEPT !.valid = Append(@, Head(ps)), !.attr = all.attr]))

\* add_EQUILIBRIUM_PHASES(phases) for a flat list of phases: the text
\* 'EQUILIBRIUM_PHASES\n   ' + '\n   '.join(lines), each line being
\* '  '.join(map(str, p)).
equilibrium_phases_block(ps) ==
    IF ps = <<>> THEN \* phases[0] of an empty list
         [outcome |-> "IndexError", value |-> <<>>, printed |-> <<>>, attr |-> phases]
    ELSE Bound(valid_phases_loop(ps, [outcome |-> "ok", valid |-> <<>>,
                                      printed |-> <<>>, attr |-> phases]),
               LAMBDA r :
        LET lines == [i \in DOMAIN r.valid |->
                         Line("   " \o r.valid[i][1] \o "  " \o str_int(r.valid[i][2]))]
        IN IF r.outcome # "ok"
           THEN [outcome |-> r.outcome, value |-> <<>>, printed |-> r.printed,
                 attr |-> r.attr]
           ELSE [outcome |-> "ok",
                 value |-> <<Line("EQUILIBRIUM_PHASES")>>
                               \o (IF lines = <<>> THEN <<Line("   ")>> ELSE lines),
                 printed |-> r.printed, attr |-> r.attr])

\* The list comprehension of add_EQUILIBRIUM_PHASES over a list of lists: the
\* blocks of the lists, in order; the first failure ends it.
RECURSIVE equilibrium_phases_blocks(_, _)
equilibrium_phases_blocks(lists, acc) ==
    IF lists = <<>> THEN acc
    ELSE Bound(equilibrium_phases_block(Head(lists)), LAMBDA b :
             LET attr == IF b.attr.set THEN b.attr ELSE acc.attr
             IN IF b.outcome # "ok"
                THEN [acc EXCEPT !.outcome = b.outcome, !.printed = @ \o b.printed,
                                 !.attr = attr]
                ELSE equilibrium_phases_blocks(Tail(lists),
                         [acc EXCEPT !.value = Append(@, b.value),
                                     !.printed = @ \o b.printed, !.attr = attr]))

\* datParser.add_EQUILIBRIUM_PHASES(phases).  phases is [flat, lists]: a flat
\* list of phases (phases[0][0] is a str) is lists[1] and gives one text
\* (value is the list of that one text); a list of lists gives the list of
\* their texts.
add_EQUILIBRIUM_PHASES(eqphases) ==
    IF eqphases.lists = <<>> \/ Head(eqphases.lists) = <<>>
    THEN \* phases[0][0]
         [outcome |-> "IndexError", value |-> <<>>, printed |-> <<>>, attr |-> phases]
    ELSE equilibrium_phases_blocks(eqphases.lists,
             [outcome |-> "ok", value |-> <<>>, printed |-> <<>>, attr |-> phases])

\* '\n'.join(texts): the lines of the texts, one text after the other.
RECURSIVE join_texts(_)
join_texts(texts) ==
    IF texts = <<>> THEN <<>> ELSE Head(texts) \o join_texts(Tail(texts))

\* [sol + '\n' + eq + '\n' + output + '\nEND' for sol, eq in
\* itertools.product(solutions, eqps)]: the solutions outermost.
input_blocks(solutions, eqps, output) ==
    join_texts([i \in 1..(Len(solutions) * Len(eqps)) |->
        solutions[((i - 1) \div Len(eqps)) + 1] \o eqps[((i - 1) % Len(eqps)) + 1]
            \o output \o <<Line("END")>>])

\* equilibrium_phases=None
NoPhases == [none |-> TRUE, flat |-> TRUE, lists |-> <<>>]

\* The text make_PHREEQC_input builds before it assigns it to self.input_str,
\* for a table `inputs` of numbers whose rows have the index labels `index`
\* and a set of targets or None.  printed holds the phases printed as
\* removed, attr is what self.phases is once the text is built.
make_PHREEQC_input_text(inputs, index, targets0, output_totals, output_molalities, output_activities, output_phases, phase_targets, allow_HCO_phases, drop_OH_species, uncertainty_id, equilibrium_phases) ==
    LET failed(o, w, pr, at) == [outcome |-> o, text |-> <<>>, warnings |-> w,
                                 printed |-> pr, attr |-> at]
        \* `if equilibrium_phases is None: ... else: ...`
        assembled(solutions, output, warned) ==
            IF equilibrium_phases.none
            THEN [outcome |-> "ok",
                  text |-> join_texts(solutions.value) \o output.value \o <<Line("END")>>,
                  warnings |-> warned, printed |-> <<>>, attr |-> output.attr]
            ELSE Bound(add_EQUILIBRIUM_PHASES(equilibrium_phases), LAMBDA eqps :
                LET attr == IF eqps.attr.set THEN eqps.attr ELSE output.attr
                IN IF eqps.outcome # "ok"
                   THEN failed(eqps.outcome, warned, eqps.printed, attr)
                   ELSE [outcome |-> "ok",
                         text |-> input_blocks(solutions.value, eqps.value, output.value),
                         warnings |-> warned, printed |-> eqps.printed, attr |-> attr])
        \* `solutions = self.generate_SOLUTIONS(inputs)` and
        \* `output = self.generate_SELECTED_OUTPUT(targets, ...)`
        generated(checked, targets) ==
            Bound(generate_SOLUTIONS(checked.value, index), LAMBDA solutions :
                LET warned == checked.warnings \o targets.warnings \o solutions.warnings
                IN IF solutions.outcome # "ok"
                   THEN failed(solutions.outcome, warned, <<>>, phases)
                   ELSE Bound(generate_SELECTED_OUTPUT(targets.value, output_totals,
                                  output_molalities, output_activities, output_phases,
                                  phase_targets, allow_HCO_phases),
                              LAMBDA output :
                                  IF output.outcome # "ok"
                                  THEN failed(output.outcome, warned, <<>>, output.attr)
                                  ELSE assembled(solutions, output, warned)))
    IN \* `inputs = self.check_inputs(inputs)`, then `if targets is None: ...`
       Bound(check_inputs(inputs, TRUE, "_std"), LAMBDA checked :
           IF checked.outcome # "ok"
           THEN failed(checked.outcome, checked.warnings, <<>>, phases)
           ELSE Bound(IF targets0 = None
                      THEN get_target_elements(checked.value, drop_OH_species,
                                               uncertainty_id)
                      ELSE [outcome |-> "ok", value |-> targets0, warnings |-> <<>>],
                      LAMBDA targets :
                          IF targets.outcome # "ok"
                          THEN failed(targets.outcome,
                                      checked.warnings \o targets.warnings, <<>>, phases)
                          ELSE generated(checked, targets)))

\* ------------------------------------------------------------ the inputs

\* The database files the model is run on: PHREEQC databases cut down to a few
\* entries of each section the parser reads.  boron.dat and brine.dat end with
\* an END header, as the sections of a full database are followed by further
\* ones; in lime.dat PHASES is the last header of the file.  redox.dat holds
\* an element written in square brackets, the way a redox state is given an
\* element of its own; the brackets hold a sign.
Databases ==
    {[path |-> "database/boron.dat",
      file |-> <<"# boron and carbonate",
                 "SOLUTION_MASTER_SPECIES",
                 "H H+ -1. H 1.008",
                 "O H2O 0 O 16.00",
                 "Ca\tCa+2 0 Ca 40.08",
                 "B B(OH)3 0 B 10.81",
                 "Mg Mg+2 0 Mg 24.312",
                 "C CO3-2 2.0 HCO3 12.0111",
                 "Alkalinity CO3-2 1 Ca0.5(CO3)0.5 50.05",
                 "",
                 "SOLUTION_SPECIES",
                 "H+ = H+",
                 "\tlog_k 0",
                 "B(OH)3 + H2O = B(OH)4- + H+",
                 "\tlog_k -9.239",
                 "Ca+2 + B(OH)3 + H2O = CaB(OH)4+ + H+",
                 "Mg+2 + B(OH)3 + H2O = MgB(OH)4+ + H+",
                 "2H2O = O2 + 4H+ + 4e-",
                 "PHASES",
                 "Calcite",
                 "\tCaCO3 = CO3-2 + Ca+2",
                 "\tlog_k -8.406",
                 "Portlandite",
                 "\tCa(OH)2 + 2H+ = Ca+2 + 2H2O",
                 "Halite",
                 "\tNaCl = Cl- + Na+",
                 "CO2(g)",
                 "\tCO2 = CO2",
                 "END">>],
     [path |-> "database/brine.dat",
      file |-> <<"SOLUTION_MASTER_SPECIES",
                 "Na Na+ 0 Na 22.9898",
                 "S SO4-2 0 SO4 32.064 # sulfate",
                 "Amm AmmH+ 0 AmmH 17.0",
                 "O H2O 0 O 16.00  ",
                 "SOLUTION_SPECIES",
                 "Na+ = Na+",
                 "SO4-2 + H+ = HSO4-  # bisulfate",
                 " log_k 1.979",
                 "AmmH+ = Amm + H+",
                 "Na+ + SO4-2 = NaSO4-",
                 "PHASES",
                 "Halite 12",
                 "  NaCl = Cl- + Na+",
                 "Thenardite",
                 "  Na2SO4 = 2Na+ + SO4-2",
                 "CO2(g)",
                 "  CO2 = CO2",
                 "EXCHANGE_MASTER_SPECIES",
                 "X X-",
                 "END">>],
     [path |-> "lime.dat",
      file |-> <<"SOLUTION_MASTER_SPECIES",
                 "Ca Ca+2 0 Ca 40.08",
                 "SOLUTION_SPECIES",
                 "Ca+2 = Ca+2",
                 "Ca+2 + H2O = CaOH+ + H+",
                 "PHASES",
                 "Lime",
                 "\tCaO + 2H+ = Ca+2 + H2O">>],
     [path |-> "database/redox.dat",
      file |-> <<"SOLUTION_MASTER_SPECIES",
                 "H H+ -1. H 1.008",
                 "Fe_di [Fe+2]+2 0 Fe_di 55.847",
                 "SOLUTION_SPECIES",
                 "[Fe+2]+2 = [Fe+2]+2",
                 "PHASES",
                 "Wustite",
                 "\tFeO + 2H+ = [Fe+2]+2 + H2O",
                 "END">>]}

\* The element symbols the targets of a query are drawn from.
TargetElements == {"B", "C", "Ca", "H", "Na", "S"}

\* The target sets given to a query: the non-empty sets of at most MaxTargets
\* elements, and None.
TargetSets ==
    {t \in SUBSET TargetElements : 1 <= Cardinality(t) /\ Cardinality(t) <= MaxTargets}
        \cup {None}

\* uncertainty_id, at its default.
UncertaintyId == "_std"

\* The column names the input tables are made of: generic options, a flag,
\* element names, master species with and without their charge, names no
\* database knows, and uncertainty columns (a name followed by _std).
ColumnNames ==
    {"temperature", "-water", "density", "Ca", "Ca+2", "CO3", "H2O", "O", "H",
     "Amm", "Foo", "Ca_std", "Ca+2_std", "CO3_std", "Foo_std"}

\* A table of the given column names; the data of a column tells which column
\* of the caller's table it is.
Table(names) == [i \in DOMAIN names |-> [name |-> names[i], data |-> i]]

\* The lists of n distinct column names.
RECURSIVE NameLists(_)
NameLists(n) ==
    IF n = 0 THEN {<<>>}
    ELSE {Append(l, c) : <<l, c>> \in {lc \in NameLists(n - 1) \X ColumnNames :
                                           lc[2] \notin Range(lc[1])}}

\* The option names as the list of __init__ is written, '-water' and
\* 'density' each a name.
OptionNames ==
    {"temperature", "temp", "pressure", "press", "pH", "pe", "redox", "O(0)",
     "-water", "density", "unit", "units"}

\* The tables of one column that is an option.
OptionTables == {Table(<<k>>) : k \in OptionNames}

\* The input tables: at least one and at most MaxCols columns, with distinct
\* names (the keys of a dict).
InputTables == {Table(l) : l \in UNION {NameLists(n) : n \in 1..MaxCols}}

\* ------------------------------------------------------- the state machine

\* The flags of generate_SELECTED_OUTPUT and make_PHREEQC_input, when the call
\* in hand is none of the two.
NoOptions ==
    [totals |-> FALSE, molalities |-> FALSE, activities |-> FALSE,
     phases |-> FALSE, allow_HCO |-> FALSE]

\* No call in hand.
Idle ==
    [op |-> "idle", targets |-> {}, flag |-> FALSE, inputs |-> <<>>, pass |-> 0,
     outcome |-> "ok", value |-> <<>>, warnings |-> <<>>, error |-> NoError,
     caller_inputs |-> <<>>, first_inputs |-> <<>>,
     section |-> "", message |-> NoMessage, options |-> NoOptions,
     printed |-> <<>>, eqphases |-> NoPhases, index |-> <<>>]

\* os.path.basename(database).split('.')[0]
name_of(database) ==
    LET parts == split(database, "/")
    IN split(parts[Len(parts)], ".")[1]

\* datParser.__init__(database) for the path of an existing file: the state
\* once the instance is constructed.
Constructed(d) ==
    LET lines == load(d.file)
        secs == find_sections(lines)
        t == master_tables(section_lines(lines, secs, "SOLUTION_MASTER_SPECIES", TRUE))
    IN /\ path = d.path
       /\ name = name_of(d.path)
       /\ db = lines
       /\ sections = secs
       /\ master_species_table = t.master_species_table
       /\ element_2_master = t.element_2_master
       /\ element_2_master_nocharge = t.element_2_master_nocharge
       /\ master_2_element = t.master_2_element
       /\ master_nocharge_2_element = t.master_nocharge_2_element
       /\ exempt_inputs = exempt_inputs_list
       /\ phases = [set |-> FALSE, value |-> EmptyDict]
       /\ input_str = [set |-> FALSE, value |-> <<>>]

\* One instance, constructed, that a single caller queries.
Init ==
    /\ \E d \in Databases : Constructed(d)
    /\ workers = <<>>
    /\ call = Idle

\* The instance awaits a call.  The runs are followed up to the first
\* make_PHREEQC_input that returns: the text it leaves in self.input_str is
\* one of thousands, and no query reads it.
Ready == call.op = "idle" /\ ~input_str.set

\* A call of get_PHASES(targets, allow_HCO).
Call_get_PHASES ==
    /\ Ready
    /\ \E targets \in TargetSets, allow_HCO \in BOOLEAN :
           LET r == get_PHASES(targets, allow_HCO)
           IN /\ call' = [Idle EXCEPT !.op = "get_PHASES", !.targets = targets,
                                      !.flag = allow_HCO, !.outcome = r.outcome,
                                      !.value = r.value]
              /\ phases' = r.attr
    /\ UNCHANGED <<tables, input_str, workers>>

\* A call of get_SOLUTION_SPECIES(targets, include_foreign).
Call_get_SOLUTION_SPECIES ==
    /\ Ready
    /\ \E targets \in TargetSets, include_foreign \in BOOLEAN :
           LET r == get_SOLUTION_SPECIES(targets, include_foreign)
           IN call' = [Idle EXCEPT !.op = "get_SOLUTION_SPECIES", !.targets = targets,
                                   !.flag = include_foreign, !.outcome = r.outcome,
                                   !.value = r.value]
    /\ UNCHANGED <<tables, phases, input_str, workers>>

\* A call of check_inputs(inputs, remove_failures) on a table of the caller.
Call_check_inputs ==
    /\ Ready
    /\ \E inputs \in InputTables \cup OptionTables, remove_failures \in BOOLEAN :
           LET r == check_inputs(inputs, remove_failures, UncertaintyId)
           IN call' = [Idle EXCEPT !.op = "check_inputs", !.inputs = inputs,
                                   !.flag = remove_failures, !.pass = 1,
                                   !.outcome = r.outcome, !.value = r.value,
                                   !.warnings = r.warnings, !.error = r.error,
                                   !.caller_inputs = r.caller_inputs]
    /\ UNCHANGED <<tables, phases, input_str, workers>>

\* A call of check_inputs on the table the call before returned, as
\* make_PHREEQC_input, get_target_elements and generate_SOLUTIONS make one
\* after the other.  The table is passed as it was returned: its columns are
\* numbered anew, by their place in it; first_inputs keeps the table the first
\* call was given.
Call_check_inputs_again ==
    /\ call.op = "check_inputs"
    /\ call.pass = 1
    /\ call.outcome = "ok"
    /\ LET inputs == Table(columns(call.value))
           r == check_inputs(inputs, call.flag, UncertaintyId)
       IN call' = [Idle EXCEPT !.op = "check_inputs", !.inputs = inputs,
                               !.flag = call.flag, !.pass = 2,
                               !.outcome = r.outcome, !.value = r.value,
                               !.warnings = r.warnings, !.error = r.error,
                               !.caller_inputs = r.caller_inputs,
                               !.first_inputs = call.inputs]
    /\ UNCHANGED <<tables, phases, input_str, workers>>

\* A call of get_target_elements(inputs, drop_OH).
Call_get_target_elements ==
    /\ Ready
    /\ \E inputs \in InputTables \cup OptionTables, drop_OH \in BOOLEAN :
           LET r == get_target_elements(inputs, drop_OH, UncertaintyId)
           IN call' = [Idle EXCEPT !.op = "get_target_elements", !.inputs = inputs,
                                   !.flag = drop_OH, !.outcome = r.outcome,
                                   !.value = r.value, !.warnings = r.warnings]
    /\ UNCHANGED <<tables, phases, input_str, workers>>

\* The keys of master_nocharge_2_element in the order the dict keeps them: the
\* valence-stripped master species of the elements, each where it first came.
RECURSIVE master_nocharge_keys(_, _)
master_nocharge_keys(elements, keys) ==
    IF elements = <<>> THEN keys
    ELSE LET v == element_2_master_nocharge[Head(elements)]
         IN master_nocharge_keys(Tail(elements),
                IF v \in Range(keys) THEN keys ELSE Append(keys, v))

\* db.get_target_elements(db.master_nocharge_2_element): the call the test of
\* the databases makes, on a table whose columns are the keys of the dict.
Call_get_target_elements_of_masters ==
    /\ Ready
    /\ LET elements == master_species_keys(get_section("SOLUTION_MASTER_SPECIES", TRUE).value, <<>>)
           inputs == Table(master_nocharge_keys(elements, <<>>))
           r == get_target_elements(inputs, TRUE, UncertaintyId)
       IN call' = [Idle EXCEPT !.op = "get_target_elements", !.inputs = inputs,
                               !.flag = TRUE, !.outcome = r.outcome,
                               !.value = r.value, !.warnings = r.warnings]
    /\ UNCHANGED <<tables, phases, input_str, workers>>

\* The names get_section is asked for: the headers of the databases, and
\* names that are no header.
SectionNames ==
    {"SOLUTION_MASTER_SPECIES", "SOLUTION_SPECIES", "PHASES",
     "EXCHANGE_MASTER_SPECIES", "END", "RATES", "phases"}

\* A call of get_section(section, remove_comments): the generator is made.
Call_get_section ==
    /\ Ready
    /\ \E section \in SectionNames, remove_comments \in BOOLEAN :
           call' = [Idle EXCEPT !.op = "get_section", !.section = section,
                                !.flag = remove_comments, !.outcome = "created"]
    /\ UNCHANGED <<tables, phases, input_str, workers>>

\* next() on the generator of get_section; pass counts the steps taken.
Next_get_section ==
    /\ call.op = "get_section"
    /\ call.outcome \in {"created", "yielded"}
    /\ LET r == get_section_next(call.section, call.flag, call.value)
       IN call' = [call EXCEPT !.pass = @ + 1, !.outcome = r.outcome,
                               !.value = r.yielded, !.message = r.message]
    /\ UNCHANGED <<tables, phases, input_str, workers>>

\* A call of generate_SELECTED_OUTPUT(targets, totals, molalities, activities,
\* phases, allow_HCO=allow_HCO) with a set of targets.
Call_generate_SELECTED_OUTPUT ==
    /\ Ready
    /\ \E targets \in TargetSets \ {None},
          o \in [totals : BOOLEAN, molalities : BOOLEAN, activities : BOOLEAN,
                 phases : BOOLEAN, allow_HCO : BOOLEAN] :
           LET r == generate_SELECTED_OUTPUT(targets, o.totals, o.molalities,
                        o.activities, o.phases, None, o.allow_HCO)
           IN /\ call' = [Idle EXCEPT !.op = "generate_SELECTED_OUTPUT",
                                      !.targets = targets, !.options = o,
                                      !.outcome = r.outcome, !.value = r.value]
              /\ phases' = r.attr
    /\ UNCHANGED <<tables, input_str, workers>>

\* The phases given to add_EQUILIBRIUM_PHASES, each (name, target_log10SI):
\* names of phases of the databases, and a name none of them holds.
PhaseTuples == {"Calcite", "Halite", "CO2(g)", "Nope"} \X {0, 12}

\* The lists of n phases of distinct names and SI.
RECURSIVE PhaseLists(_)
PhaseLists(n) ==
    IF n = 0 THEN {<<>>}
    ELSE {Append(l, t) : <<l, t>> \in {lt \in PhaseLists(n - 1) \X PhaseTuples :
                                           lt[2] \notin Range(lt[1])}}

\* What add_EQUILIBRIUM_PHASES is given: a flat list of at most MaxPhases
\* phases, or a list of two lists of one phase each.
EquilibriumPhases ==
    {[none |-> FALSE, flat |-> TRUE, lists |-> <<l>>] :
         l \in UNION {PhaseLists(n) : n \in 1..MaxPhases}}
    \cup {[none |-> FALSE, flat |-> FALSE, lists |-> <<l[1], l[2]>>] :
              l \in PhaseLists(1) \X PhaseLists(1)}

\* A call of add_EQUILIBRIUM_PHASES(phases).
Call_add_EQUILIBRIUM_PHASES ==
    /\ Ready
    /\ \E eqphases \in EquilibriumPhases :
           LET r == add_EQUILIBRIUM_PHASES(eqphases)
           IN /\ call' = [Idle EXCEPT !.op = "add_EQUILIBRIUM_PHASES",
                                      !.eqphases = eqphases, !.outcome = r.outcome,
                                      !.value = r.value, !.printed = r.printed]
              /\ phases' = r.attr
    /\ UNCHANGED <<tables, input_str, workers>>

\* The tables given to make_PHREEQC_input, by column names: a composition
\* with an uncertainty column and a generic option, master species to
\* translate, a column no database knows, and a generic option alone.
MakeColumns ==
    {<<"Ca", "Mg", "Mg_std", "temperature">>, <<"Ca+2", "Foo">>, <<"Na", "H2O">>,
     <<"temperature">>}

\* The equilibrium phases given to make_PHREEQC_input.
MakePhases ==
    {NoPhases,
     [none |-> FALSE, flat |-> TRUE, lists |-> <<<< <<"Calcite", 0>>, <<"Nope", 0>> >>>>],
     [none |-> FALSE, flat |-> TRUE, lists |-> <<<< <<"Halite", 12>> >>>>],
     [none |-> FALSE, flat |-> FALSE,
      lists |-> << << <<"Halite", 0>> >>, << <<"CO2(g)", 12>> >> >>]}

\* The output flags given to make_PHREEQC_input: the defaults, the defaults
\* but for allow_HCO_phases, the totals alone, and none.
MakeOptions ==
    {[totals |-> TRUE, molalities |-> TRUE, activities |-> TRUE, phases |-> TRUE,
      allow_HCO |-> TRUE],
     [totals |-> TRUE, molalities |-> TRUE, activities |-> TRUE, phases |-> TRUE,
      allow_HCO |-> FALSE],
     [totals |-> TRUE, molalities |-> FALSE, activities |-> FALSE, phases |-> FALSE,
      allow_HCO |-> TRUE],
     NoOptions}

\* A call of make_PHREEQC_input on a table of numbers with rows 0, 1, ...:
\* the text is assigned to self.input_str, which is then returned.
Call_make_PHREEQC_input ==
    /\ Ready
    /\ \E cols \in MakeColumns, rows \in 1..MaxRows, targets \in {None, {"Ca"}},
          o \in MakeOptions, eqphases \in MakePhases :
           LET index == [r \in 1..rows |-> r - 1]
               r == make_PHREEQC_input_text(Table(cols), index, targets, o.totals,
                        o.molalities, o.activities, o.phases, None, o.allow_HCO,
                        TRUE, UncertaintyId, eqphases)
               stored == IF r.outcome = "ok" THEN [set |-> TRUE, value |-> r.text]
                         ELSE input_str
           IN /\ input_str' = stored
              /\ phases' = r.attr
              /\ call' = [Idle EXCEPT !.op = "make_PHREEQC_input",
                                      !.inputs = Table(cols), !.index = index,
                                      !.targets = targets, !.options = o,
                                      !.eqphases = eqphases, !.outcome = r.outcome,
                                      !.value = stored.value, !.warnings = r.warnings,
                                      !.printed = r.printed]
    /\ UNCHANGED <<tables, workers>>

\* The caller has taken what the call gave; the instance awaits the next call.
Return ==
    /\ call.op # "idle"
    /\ call' = Idle
    /\ UNCHANGED <<tables, phases, input_str, workers>>

Next ==
    \/ Call_get_PHASES
    \/ Call_get_SOLUTION_SPECIES
    \/ Call_check_inputs
    \/ Call_check_inputs_again
    \/ Call_get_target_elements
    \/ Call_get_target_elements_of_masters
    \/ Call_get_section
    \/ Next_get_section
    \/ Call_generate_SELECTED_OUTPUT
    \/ Call_add_EQUILIBRIUM_PHASES
    \/ Call_make_PHREEQC_input
    \/ Return

Spec == Init /\ [][Next]_vars

\* ------------------------------------------- construction, step by step

\* The lines the files of the second specification are made of: headers (one
\* with trailing blanks), entries, a header that is indented, a comment and
\* an empty line.
FileLines ==
    {"PHASES", "SOLUTION_MASTER_SPECIES", "END  ", "Ca Ca+2 0 Ca 40.08", "Halite",
     " PHASES", "# PHASES", ""}

RECURSIVE Files(_)
Files(n) ==
    IF n = 0 THEN {<<>>}
    ELSE Files(n - 1) \cup {Append(f, l) : <<f, l>> \in Files(n - 1) \X FileLines}

\* datParser.__init__ once `self.db = self.load(self.path)` is done, for any
\* file of at most MaxLines lines: the index and the tables are not set yet.
InitSections ==
    \E file \in Files(MaxLines) :
        /\ path = "lines.dat"
        /\ name = name_of("lines.dat")
        /\ db = load(file)
        /\ sections = EmptyDict
        /\ master_species_table = EmptyDict
        /\ element_2_master = EmptyDict
        /\ element_2_master_nocharge = EmptyDict
        /\ master_2_element = EmptyDict
        /\ master_nocharge_2_element = EmptyDict
        /\ exempt_inputs = <<>>
        /\ phases = [set |-> FALSE, value |-> EmptyDict]
        /\ input_str = [set |-> FALSE, value |-> <<>>]
        /\ workers = <<>>
        /\ call = [Idle EXCEPT !.op = "__init__"]

\* `self.sections = self.find_sections()`
Init_find_sections ==
    /\ call.op = "__init__"
    /\ call.pass = 0
    /\ sections' = find_sections(db)
    /\ call' = [call EXCEPT !.pass = 1]
    /\ UNCHANGED <<path, name, db, master_species_table, element_2_master,
                   element_2_master_nocharge, master_2_element,
                   master_nocharge_2_element, exempt_inputs, phases, input_str,
                   workers>>

\* `self.get_SOLUTION_MASTER_SPECIES()` and the rest of __init__: KeyError
\* when the section is not indexed, IndexError when a line of it has fewer
\* than two fields (sp[0], v[0]); else the instance is constructed.
Init_get_SOLUTION_MASTER_SPECIES ==
    /\ call.op = "__init__"
    /\ call.pass = 1
    /\ call.outcome = "ok"
    /\ LET sec == get_section("SOLUTION_MASTER_SPECIES", TRUE)
           t == master_tables(sec.value)
       IN IF sec.outcome # "ok"
          THEN /\ call' = [call EXCEPT !.outcome = sec.outcome]
               /\ UNCHANGED <<master_species_table, element_2_master,
                              element_2_master_nocharge, master_2_element,
                              master_nocharge_2_element, exempt_inputs>>
          ELSE IF \E i \in DOMAIN sec.value : Len(split_ws(sec.value[i])) < 2
          THEN /\ call' = [call EXCEPT !.outcome = "IndexError"]
               /\ UNCHANGED <<master_species_table, element_2_master,
                              element_2_master_nocharge, master_2_element,
                              master_nocharge_2_element, exempt_inputs>>
          ELSE /\ call' = Idle
               /\ master_species_table' = t.master_species_table
               /\ element_2_master' = t.element_2_master
               /\ element_2_master_nocharge' = t.element_2_master_nocharge
               /\ master_2_element' = t.master_2_element
               /\ master_nocharge_2_element' = t.master_nocharge_2_element
               /\ exempt_inputs' = exempt_inputs_list
    /\ UNCHANGED <<path, name, db, sections, phases, input_str, workers>>

NextSections ==
    \/ Init_find_sections
    \/ Init_get_SOLUTION_MASTER_SPECIES

SpecSections == InitSections /\ [][NextSections]_vars

\* ------------------------------------------------ one instance, two threads

\* The threads that share one instance.
Workers == {1, 2}

\* The tables the threads make their input from, by column names.
WorkerColumns ==
    {<<"Ca">>, <<"Ca", "temperature">>, <<"Na">>, <<"H2O">>, <<"Foo", "Ca+2_std">>}

\* The text a thread's call make_PHREEQC_input(inputs) builds from its one-row
\* table, every other parameter at its default.
worker_text(inputs) ==
    make_PHREEQC_input_text(inputs, <<0>>, None, TRUE, TRUE, TRUE, TRUE, None,
                            TRUE, TRUE, UncertaintyId, NoPhases)

\* Two threads have each called make_PHREEQC_input on the one instance, with
\* different tables.
InitThreads ==
    /\ \E d \in Databases : Constructed(d)
    /\ \E c \in [Workers -> WorkerColumns] :
           /\ c[1] # c[2]
           /\ workers = [w \in Workers |->
                  [pc |-> "called", inputs |-> Table(c[w]), outcome |-> "ok",
                   text |-> <<>>, returned |-> <<>>]]
    /\ call = Idle

\* A thread runs make_PHREEQC_input up to the assignment of self.input_str:
\* it reads attributes no thread writes, and self.phases, which get_PHASES
\* assigns the same dict in every thread.
Worker_build(w) ==
    /\ workers[w].pc = "called"
    /\ LET r == worker_text(workers[w].inputs)
       IN /\ workers' = [workers EXCEPT
                 ![w] = [@ EXCEPT !.pc = IF r.outcome = "ok" THEN "built" ELSE "raised",
                                  !.outcome = r.outcome, !.text = r.text]]
          /\ phases' = r.attr
    /\ UNCHANGED <<tables, input_str, call>>

\* `self.input_str = ...`
Worker_store(w) ==
    /\ workers[w].pc = "built"
    /\ input_str' = [set |-> TRUE, value |-> workers[w].text]
    /\ workers' = [workers EXCEPT ![w] = [@ EXCEPT !.pc = "stored"]]
    /\ UNCHANGED <<tables, phases, call>>

\* `return self.input_str`: the attribute is read again.
Worker_return(w) ==
    /\ workers[w].pc = "stored"
    /\ workers' = [workers EXCEPT
           ![w] = [@ EXCEPT !.pc = "returned", !.returned = input_str.value]]
    /\ UNCHANGED <<tables, phases, input_str, call>>

NextThreads ==
    \E w \in Workers :
        \/ Worker_build(w)
        \/ Worker_store(w)
        \/ Worker_return(w)

SpecThreads == InitThreads /\ [][NextThreads]_vars

\* ------------------------------------------------ construction from a name

\* pkgrs.resource_filename('blazy', os.path.join('resources', 'database')):
\* the directory of the databases that come with the package.
dbase_path == "blazy/resources/database"

\* pkgrs.resource_filename('blazy', os.path.join('resources', 'database',
\* database + '.dat'))
resource_filename(database) == dbase_path \o "/" \o database \o ".dat"

\* s.endswith(suffix)
endswith(s, suffix) ==
    Len(suffix) <= Len(s) /\ SubSeq(s, Len(s) - Len(suffix) + 1, Len(s)) = suffix

\* glob(os.path.join(dbase_path, '*.dat')) on a file system whose existing
\* paths are `existing`: the files of the directory whose names end in .dat.
glob_dat(existing) ==
    {f \in existing :
        /\ startswith(f, dbase_path \o "/")
        /\ endswith(f, ".dat")
        /\ ~contains("/", From(f, Len(dbase_path) + 2))}

\* datParser._database_path_handler(database) on a file system whose existing
\* paths are `existing`: the path, or ValueError with the name it looked for.
database_path_handler(database, existing) ==
    LET \* `database = database.replace('.dat', '')`
        stripped == replace(database, ".dat", "")
        dbase_names == {name_of(d) : d \in glob_dat(existing)}
    IN IF database \in existing
       THEN \* `if os.path.exists(database): return database`
            [outcome |-> "ok", value |-> database, database |-> database]
       ELSE IF stripped \in dbase_names
       THEN [outcome |-> "ok",
             value |-> resource_filename(replace(stripped, ".dat", "")),
             database |-> stripped]
       ELSE [outcome |-> "ValueError", value |-> "", database |-> stripped]

\* The names of the databases that come with the package in the model.
BundledNames == {"boron", "brine"}

\* The lines of the database of that name.
ContentOf(n) == (CHOOSE d \in Databases : name_of(d.path) = n).file

\* The files that may lie under the working directory: a database of the
\* user, one in a directory, and a copy of a bundled one.
LocalFiles == {"lime.dat", "database/boron.dat", "brine.dat"}

\* The file systems: the bundled databases, and any of the local files.
FileSystems ==
    {[f \in {resource_filename(n) : n \in BundledNames} \cup local |->
         ContentOf(name_of(f))] : local \in SUBSET LocalFiles}

\* What datParser is given as `database`: bundled names bare, with the
\* extension and as full paths, local paths, names of no database, and names
\* with '.dat' in other places than the end.
GivenDatabases ==
    {"brine", "brine.dat", resource_filename("brine"), "boron", "lime",
     "lime.dat", "database/boron.dat", "nope", "nope.dat", "brine.dat.dat",
     "br.datine", "database/brine"}

\* datParser(database) is called: no attribute of the instance is set yet.
InitPaths ==
    \E database \in GivenDatabases, files \in FileSystems :
        /\ path = ""
        /\ name = ""
        /\ db = <<>>
        /\ sections = EmptyDict
        /\ master_species_table = EmptyDict
        /\ element_2_master = EmptyDict
        /\ element_2_master_nocharge = EmptyDict
        /\ master_2_element = EmptyDict
        /\ master_nocharge_2_element = EmptyDict
        /\ exempt_inputs = <<>>
        /\ phases = [set |-> FALSE, value |-> EmptyDict]
        /\ input_str = [set |-> FALSE, value |-> <<>>]
        /\ workers = <<>>
        /\ call = [op |-> "datParser", pass |-> 0, database |-> database,
                   files |-> files, outcome |-> "ok", looked_for |-> ""]

\* `self.path = self._database_path_handler(database)`: the ValueError leaves
\* __init__, and the caller has no instance.
Init_database_path_handler ==
    /\ call.op = "datParser"
    /\ call.pass = 0
    /\ LET r == database_path_handler(call.database, DOMAIN call.files)
       IN /\ path' = r.value
          /\ call' = [call EXCEPT !.pass = 1, !.outcome = r.outcome,
                                  !.looked_for = r.database]
    /\ UNCHANGED <<name, db, sections, master_species_table, element_2_master,
                   element_2_master_nocharge, master_2_element,
                   master_nocharge_2_element, exempt_inputs, phases, input_str,
                   workers>>

\* `self.name = os.path.basename(database).split('.')[0]`
Init_name ==
    /\ call.op = "datParser"
    /\ call.pass = 1
    /\ call.outcome = "ok"
    /\ name' = name_of(call.database)
    /\ call' = [call EXCEPT !.pass = 2]
    /\ UNCHANGED <<path, db, sections, master_species_table, element_2_master,
                   element_2_master_nocharge, master_2_element,
                   master_nocharge_2_element, exempt_inputs, phases, input_str,
                   workers>>

\* `self.db = self.load(self.path)` and the rest of __init__, on the file
\* that lies at the path.
Init_load ==
    /\ call.op = "datParser"
    /\ call.pass = 2
    /\ LET lines == load(call.files[path])
           secs == find_sections(lines)
           t == master_tables(section_lines(lines, secs, "SOLUTION_MASTER_SPECIES", TRUE))
       IN /\ db' = lines
          /\ sections' = secs
          /\ master_species_table' = t.master_species_table
          /\ element_2_master' = t.element_2_master
          /\ element_2_master_nocharge' = t.element_2_master_nocharge
          /\ master_2_element' = t.master_2_element
          /\ master_nocharge_2_element' = t.master_nocharge_2_element
          /\ exempt_inputs' = exempt_inputs_list
    /\ call' = [call EXCEPT !.pass = 3]
    /\ UNCHANGED <<path, name, phases, input_str, workers>>

NextPaths ==
    \/ Init_database_path_handler
    \/ Init_name
    \/ Init_load

SpecPaths == InitPaths /\ [][NextPaths]_vars

\* ------------------------------------------------- molecules, decomposed

\* The molecules decompose_molecule is given: every element symbol, and
\* molecules with counts, groups in parentheses and a valence.
Molecules ==
    valid_elements \cup {"CO2", "HCO3-", "B(OH)4-", "Ca+2", "Ca(OH)2", "SO4-2",
                         "Mg(OH)2(CO3)", "Ca0.5(CO3)0.5"}

\* decompose_molecule(molecule) or decompose_molecule(molecule, 2) is called;
\* the function is of no instance.
InitMolecules ==
    \E molecule \in Molecules, n \in {1, 2} :
        /\ path = ""
        /\ name = ""
        /\ db = <<>>
        /\ sections = EmptyDict
        /\ master_species_table = EmptyDict
        /\ element_2_master = EmptyDict
        /\ element_2_master_nocharge = EmptyDict
        /\ master_2_element = EmptyDict
        /\ master_nocharge_2_element = EmptyDict
        /\ exempt_inputs = <<>>
        /\ phases = [set |-> FALSE, value |-> EmptyDict]
        /\ input_str = [set |-> FALSE, value |-> <<>>]
        /\ workers = <<>>
        /\ call = [op |-> "decompose_molecule", molecule |-> molecule, n |-> n,
                   returned |-> FALSE, comp |-> EmptyDict, valence |-> ""]

\* The call returns its dict.
Return_decompose_molecule ==
    /\ call.op = "decompose_molecule"
    /\ ~call.returned
    /\ LET r == decompose_molecule(call.molecule, call.n)
       IN call' = [call EXCEPT !.returned = TRUE, !.comp = r.comp,
                               !.valence = r.valence]
    /\ UNCHANGED <<tables, phases, input_str, workers>>

NextMolecules == Return_decompose_molecule

SpecMolecules == InitMolecules /\ [][NextMolecules]_vars

\* ----------------------------------------------- reactions, split again

\* sep.join(tokens)
RECURSIVE joined(_, _)
joined(tokens, sep) ==
    IF tokens = <<>> THEN ""
    ELSE IF Len(tokens) = 1 THEN tokens[1]
    ELSE tokens[1] \o sep \o joined(Tail(tokens), sep)

\* The sides the reaction lines are made of: species with counts and
\* charges, set apart by one blank, by several, by tabs or by none, with
\* blanks at either end; an empty side; a side that ends in a comment.
ReactionSides ==
    {"Ca+2 + B(OH)3 + H2O", "CaB(OH)4+ + H+", "2H2O", "O2 + 4H+ + 4e-",
     "  CaCO3 ", "CO3-2  +  Ca+2", "\tNaCl", "Cl-\t+\tNa+", "H+ +Na+", "",
     "HSO4-  # bisulfate", "Ca+2 +"}

\* The reaction lines reacsplit is given: a side, '=', a side.
ReactionLines ==
    {l \o e \o r : <<l, e, r>> \in ReactionSides \X {"=", " = "} \X ReactionSides}

\* reacsplit(reac) is called on a reaction line; the function is of no
\* instance.
InitReactions ==
    \E reac \in ReactionLines :
        /\ path = ""
        /\ name = ""
        /\ db = <<>>
        /\ sections = EmptyDict
        /\ master_species_table = EmptyDict
        /\ element_2_master = EmptyDict
        /\ element_2_master_nocharge = EmptyDict
        /\ master_2_element = EmptyDict
        /\ master_nocharge_2_element = EmptyDict
        /\ exempt_inputs = <<>>
        /\ phases = [set |-> FALSE, value |-> EmptyDict]
        /\ input_str = [set |-> FALSE, value |-> <<>>]
        /\ workers = <<>>
        /\ call = [op |-> "reacsplit", reac |-> reac, pass |-> 0, value |-> <<>>,
                   rejoined |-> "", again |-> <<>>]

\* The call returns the lists of the sides.
Return_reacsplit ==
    /\ call.op = "reacsplit"
    /\ call.pass = 0
    /\ call' = [call EXCEPT !.pass = 1, !.value = reacsplit(call.reac)]
    /\ UNCHANGED <<tables, phases, input_str, workers>>

\* The caller joins the reactants and the products with ' + ' and the two
\* sides with ' = ', and calls reacsplit on the line it has made.
Rejoin_reacsplit ==
    /\ call.op = "reacsplit"
    /\ call.pass = 1
    /\ LET line == joined(call.value[1], " + ") \o " = " \o joined(call.value[2], " + ")
       IN call' = [call EXCEPT !.pass = 2, !.rejoined = line,
                               !.again = reacsplit(line)]
    /\ UNCHANGED <<tables, phases, input_str, workers>>

NextReactions ==
    \/ Return_reacsplit
    \/ Rejoin_reacsplit

SpecReactions == InitReactions /\ [][NextReactions]_vars

\* ------------------------------------------------ the iphreeqc wrapper

\* blazy/phreeqc/run.py, class iphreeqc.  The wrapper names a datParser by two
\* of its attributes: self.db, and self.make_PHREEQC_input, the method
\* __init__ took from the datParser it constructed.  The variables of the
\* instance hold the datParser in hand, the one whose method runs or ran
\* last; call holds the wrapper:
\*   refs       the attributes of the wrapper that name the datParser in hand
\*   other      the datParser the remaining attribute names, when the two
\*              name different objects: NoParser otherwise
\*   changes    the calls of change_database so far
\*   phreeqc    self.phreeqc: [alive |-> FALSE] when the attribute is absent,
\*              else with the path of the database the engine loaded
\*   made_by    the path of the datParser that made the text of the call in hand
\*   ran        the text the engine was last given by run(), and the database
\*              it had loaded

\* The most calls of change_database in one run.
MaxChanges == 2

\* The tables given to run() and to make_PHREEQC_input, by column names.
WrapperColumns == {<<"Ca">>, <<"Na", "Na_std">>, <<"Fe_di">>}

\* The attributes of the datParser in hand, as one value.
Attributes ==
    [path |-> path, name |-> name, db |-> db, sections |-> sections,
     master_species_table |-> master_species_table,
     element_2_master |-> element_2_master,
     element_2_master_nocharge |-> element_2_master_nocharge,
     master_2_element |-> master_2_element,
     master_nocharge_2_element |-> master_nocharge_2_element,
     exempt_inputs |-> exempt_inputs, phases |-> phases, input_str |-> input_str]

\* No second datParser: both attributes name the one in hand.
NoParser == [path |-> ""]

\* The datParser p comes in hand.
InHand(p) ==
    /\ path' = p.path
    /\ name' = p.name
    /\ db' = p.db
    /\ sections' = p.sections
    /\ master_species_table' = p.master_species_table
    /\ element_2_master' = p.element_2_master
    /\ element_2_master_nocharge' = p.element_2_master_nocharge
    /\ master_2_element' = p.master_2_element
    /\ master_nocharge_2_element' = p.master_nocharge_2_element
    /\ exempt_inputs' = p.exempt_inputs
    /\ phases' = p.phases
    /\ input_str' = p.input_str

\* datParser(database), as a value: what Constructed(d) leaves in the instance.
datParser(d) ==
    LET lines == load(d.file)
        secs == find_sections(lines)
        t == master_tables(section_lines(lines, secs, "SOLUTION_MASTER_SPECIES", TRUE))
    IN [path |-> d.path, name |-> name_of(d.path), db |-> lines, sections |-> secs,
        master_species_table |-> t.master_species_table,
        element_2_master |-> t.element_2_master,
        element_2_master_nocharge |-> t.element_2_master_nocharge,
        master_2_element |-> t.master_2_element,
        master_nocharge_2_element |-> t.master_nocharge_2_element,
        exempt_inputs |-> exempt_inputs_list,
        phases |-> [set |-> FALSE, value |-> EmptyDict],
        input_str |-> [set |-> FALSE, value |-> <<>>]]

\* self.phreeqc, absent.
NoEngine == [alive |-> FALSE, loaded |-> ""]
\* The engine has run nothing yet.
NeverRan == [text |-> <<>>, loaded |-> ""]

\* The wrapper between two calls.
Wrapper ==
    [op |-> "iphreeqc", refs |-> {"db", "make_PHREEQC_input"}, other |-> NoParser,
     changes |-> 0, phreeqc |-> NoEngine, inputs |-> <<>>, outcome |-> "ok",
     value |-> <<>>, made_by |-> "", ran |-> NeverRan]

\* iphreeqc.__init__(database): `self.db = datParser(database)` and
\* `self.make_PHREEQC_input = self.db.make_PHREEQC_input`; self.phreeqc is
\* not set.
InitWrapper ==
    /\ \E d \in Databases : Constructed(d)
    /\ workers = <<>>
    /\ call = Wrapper

\* The wrapper awaits a call.
WrapperReady == call.op = "iphreeqc"

\* The datParser self.db names, and the one self.make_PHREEQC_input is a
\* method of.
self_db == IF "db" \in call.refs THEN Attributes ELSE call.other
self_make_PHREEQC_input ==
    IF "make_PHREEQC_input" \in call.refs THEN Attributes ELSE call.other

\* change_database(database): `self.db = datParser(database)`, and the engine
\* loads the new file when self.phreeqc exists.  Nothing else is assigned:
\* the datParser self.make_PHREEQC_input belongs to stays as it was.
change_database ==
    /\ WrapperReady
    /\ call.changes < MaxChanges
    /\ \E d \in Databases : \E p \in {datParser(d)} :
           /\ InHand(p)
           /\ call' = [call EXCEPT
                  !.op = "change_database",
                  !.refs = {"db"},
                  !.other = self_make_PHREEQC_input,
                  !.changes = @ + 1,
                  !.phreeqc = IF @.alive THEN [@ EXCEPT !.loaded = d.path] ELSE @]
    /\ UNCHANGED workers

\* The wrapper's attribute is looked up for a call, and names the datParser
\* that is not in hand: that one comes in hand.
lookup ==
    /\ WrapperReady
    /\ call.other # NoParser
    /\ InHand(call.other)
    /\ call' = [call EXCEPT !.refs = {"db", "make_PHREEQC_input"} \ @,
                            !.other = Attributes]
    /\ UNCHANGED workers

\* `inputs.loc[:, [c for c in inputs.columns if uncertainty_id not in c]]`
without_uncertainties(inputs, uncertainty_id) ==
    SelectSeq(inputs, LAMBDA c : ~contains(uncertainty_id, c.name))

\* run_phreeqc(input_string, keepalive), on the engine: spawned and loaded
\* with self.db.path when self.phreeqc is absent, killed after the run unless
\* kept alive.  What the engine computes is not modelled.
run_phreeqc(engine, input_string, keepalive) ==
    LET spawned == IF engine.alive THEN engine
                   ELSE [alive |-> TRUE, loaded |-> self_db.path]
    IN [ran |-> [text |-> input_string, loaded |-> spawned.loaded],
        phreeqc |-> IF keepalive THEN spawned ELSE NoEngine]

\* run(inputs), every other parameter at its default: self.db checks the
\* table, makes the input, and the engine runs it.
run ==
    /\ WrapperReady
    /\ "db" \in call.refs
    /\ \E cols \in WrapperColumns :
       \E checked \in {check_inputs(Table(cols), TRUE, UncertaintyId)} :
       \E r \in {IF checked.outcome # "ok"
                 THEN [outcome |-> checked.outcome, text |-> <<>>, attr |-> phases]
                 ELSE make_PHREEQC_input_text(
                          without_uncertainties(checked.value, UncertaintyId),
                          <<0>>, None, TRUE, TRUE, TRUE, TRUE, None, TRUE, TRUE,
                          UncertaintyId, NoPhases)} :
           LET ok == r.outcome = "ok"
               e == run_phreeqc(call.phreeqc, r.text, FALSE)
           IN /\ input_str' = IF ok THEN [set |-> TRUE, value |-> r.text]
                              ELSE input_str
              /\ phases' = r.attr
              /\ call' = [call EXCEPT
                     !.op = "run", !.inputs = Table(cols), !.outcome = r.outcome,
                     !.value = r.text, !.made_by = path,
                     !.ran = IF ok THEN e.ran ELSE @,
                     !.phreeqc = IF ok THEN e.phreeqc ELSE @]
    /\ UNCHANGED <<tables, workers>>

\* self.run_phreeqc(input_string, keepalive=True), on the text last made: the
\* engine stays, for change_database to load the next file into.
run_phreeqc_keepalive ==
    /\ WrapperReady
    /\ input_str.set
    /\ LET e == run_phreeqc(call.phreeqc, input_str.value, TRUE)
       IN call' = [call EXCEPT !.op = "run_phreeqc", !.ran = e.ran,
                               !.phreeqc = e.phreeqc, !.value = <<>>,
                               !.outcome = "ok", !.made_by = ""]
    /\ UNCHANGED <<tables, phases, input_str, workers>>

\* self.make_PHREEQC_input(inputs), every other parameter at its default: the
\* method __init__ bound, on the datParser it was bound to.
make_PHREEQC_input ==
    /\ WrapperReady
    /\ "make_PHREEQC_input" \in call.refs
    /\ \E cols \in WrapperColumns :
       \E r \in {make_PHREEQC_input_text(Table(cols), <<0>>, None, TRUE, TRUE,
                     TRUE, TRUE, None, TRUE, TRUE, UncertaintyId, NoPhases)} :
           LET stored == IF r.outcome = "ok" THEN [set |-> TRUE, value |-> r.text]
                         ELSE input_str
           IN /\ input_str' = stored
              /\ phases' = r.attr
              /\ call' = [call EXCEPT
                     !.op = "make_PHREEQC_input", !.inputs = Table(cols),
                     !.outcome = r.outcome, !.value = stored.value,
                     !.made_by = path]
    /\ UNCHANGED <<tables, workers>>

\* The caller has taken what the call gave.
WrapperReturn ==
    /\ call.op # "iphreeqc"
    /\ call' = [call EXCEPT !.op = "iphreeqc"]
    /\ UNCHANGED <<tables, phases, input_str, workers>>

NextWrapper ==
    \/ change_database
    \/ lookup
    \/ run
    \/ run_phreeqc_keepalive
    \/ make_PHREEQC_input
    \/ WrapperReturn

SpecWrapper == InitWrapper /\ [][NextWrapper]_vars

\* ------------------------------------------------------------- the claims

\* The entries of the PHASES section, name to detail lines, as they stand in
\* the database.
PhaseEntries == parse_PHASES(TRUE).value

\* The formula of a phase: the first reactant token of the entry's first
\* detail line.
FormulaOf(p) == reacsplit(PhaseEntries[p][1])[1][1]

\* The phases the specification asks for: the formula's elements are all among
\* `allowed` and some of them is a target.
PhasesFor(targets, allowed) ==
    {p \in DOMAIN PhaseEntries :
        /\ get_elements(FormulaOf(p)) \subseteq allowed
        /\ get_elements(FormulaOf(p)) \cap targets # {}}

\* A call of get_PHASES with a set of targets on a database whose PHASES
\* section is indexed.
PhasesQuery(allow_HCO) ==
    /\ call.op = "get_PHASES"
    /\ call.targets # None
    /\ call.flag = allow_HCO
    /\ "PHASES" \in DOMAIN sections

\* C1: get_PHASES(targets, allow_HCO=True) returns exactly the names of the
\* PHASES entries whose formula has all its elements in targets + {H, C, O}
\* and at least one element in targets.
C1_get_PHASES_allow_HCO ==
    PhasesQuery(TRUE) =>
        /\ call.outcome = "ok"
        /\ call.value = PhasesFor(call.targets, call.targets \cup {"H", "C", "O"})

\* C1, its case: a query that returns a phase with H, C or O beside the target,
\* leaves out a phase whose formula holds a target's letters without holding
\* the element (C in NaCl, CaCO3), and leaves out a phase made of H, C, O alone.
C1_Witness ==
    /\ PhasesQuery(TRUE)
    /\ call.outcome = "ok"
    /\ \E p \in call.value : get_elements(FormulaOf(p)) \ call.targets # {}
    /\ \E p \in DOMAIN PhaseEntries \ call.value :
           \E t \in call.targets : contains(t, FormulaOf(p))
    /\ \E p \in DOMAIN PhaseEntries \ call.value :
           get_elements(FormulaOf(p)) \subseteq {"H", "C", "O"}

\* C2: get_PHASES(targets, allow_HCO=False) completes and returns exactly the
\* names of the PHASES entries whose formula has all its elements in targets
\* and at least one element in targets.
C2_get_PHASES_no_HCO ==
    PhasesQuery(FALSE) =>
        /\ call.outcome = "ok"
        /\ call.value = PhasesFor(call.targets, call.targets)

\* The entries of the SOLUTION_SPECIES section: the reaction lines.
SpeciesEntries == DOMAIN parse_SOLUTION_SPECIES(TRUE).value

\* The species tokens of one side (1 the reactants, 2 the products) of the
\* entries, the leading multiplier removed.
SideTokens(side) ==
    UNION {{remove_stoich(c) : c \in Range(reacsplit(s)[side])} : s \in SpeciesEntries}

\* A call of get_SOLUTION_SPECIES with a set of targets that returned.
SpeciesQuery ==
    /\ call.op = "get_SOLUTION_SPECIES"
    /\ call.targets # None
    /\ call.outcome = "ok"

BorateEntry == "B(OH)3 + H2O = B(OH)4- + H+"

\* C3: every species get_SOLUTION_SPECIES returns is a product token of some
\* entry, a token met on the reactant side only is never returned, and for
\* the entry B(OH)3 + H2O = B(OH)4- + H+ with targets {B} (include_foreign at
\* its default, True) the result holds B(OH)4- and neither of the reactants
\* B(OH)3 and H2O.
C3_only_products_scanned ==
    SpeciesQuery =>
        /\ call.value \subseteq SideTokens(2)
        /\ call.value \cap (SideTokens(1) \ SideTokens(2)) = {}
        /\ (BorateEntry \in SpeciesEntries /\ call.targets = {"B"} /\ call.flag) =>
               /\ "B(OH)4-" \in call.value
               /\ "B(OH)3" \notin call.value
               /\ "H2O" \notin call.value

\* C3, its case: the query for {B} on a database that holds the borate entry,
\* where B(OH)3 holds the target and stands on the reactant side only.
C3_Witness ==
    /\ SpeciesQuery
    /\ BorateEntry \in SpeciesEntries
    /\ call.targets = {"B"}
    /\ call.flag
    /\ "B(OH)3" \in SideTokens(1) \ SideTokens(2)
    /\ "B(OH)4-" \in call.value

\* The product tokens the specification asks for.
SpeciesFor(targets, include_foreign) ==
    {p \in SideTokens(2) :
        /\ get_elements(p) \cap targets # {}
        /\ include_foreign \/ get_elements(p) \subseteq targets}

\* C4: get_SOLUTION_SPECIES returns exactly the multiplier-stripped product
\* tokens whose elements meet the targets and, when include_foreign is False,
\* are all targets; with include_foreign=True a product that mixes target and
\* other elements is returned.
C4_get_SOLUTION_SPECIES_exact ==
    SpeciesQuery => call.value = SpeciesFor(call.targets, call.flag)

\* C4, its case: include_foreign=True returns a product with an element that
\* is no target, which the same targets with include_foreign=False leave out
\* while still returning something.
C4_Witness ==
    /\ SpeciesQuery
    /\ call.flag
    /\ \E p \in call.value : get_elements(p) \ call.targets # {}
    /\ SpeciesFor(call.targets, FALSE) # {}
    /\ SpeciesFor(call.targets, FALSE) # call.value

\* s ends with suffix.
EndsWith(s, suffix) ==
    Len(suffix) <= Len(s) /\ SubSeq(s, Len(s) - Len(suffix) + 1, Len(s)) = suffix

\* The uncertainty suffix of a column name ("" when it has none) and its base
\* key: the name with that suffix removed.
SuffixOf(k0) == IF EndsWith(k0, UncertaintyId) THEN UncertaintyId ELSE ""
BaseOf(k0) == SubSeq(k0, 1, Len(k0) - Len(SuffixOf(k0)))

\* What the specification makes of a base key: kept as it is ("retained"),
\* translated from a master species ("master") or from a master species
\* without its charge ("nocharge"), or not valid in the database ("invalid").
KindOf(b) ==
    IF \/ b \in Range(exempt_inputs)
       \/ startswith(b, "-")
       \/ b \in DOMAIN element_2_master THEN "retained"
    ELSE IF b \in DOMAIN master_2_element THEN "master"
    ELSE IF b \in DOMAIN master_nocharge_2_element THEN "nocharge"
    ELSE "invalid"

\* The name the specification gives the column k0 in the returned table.
NewNameOf(k0) ==
    CASE KindOf(BaseOf(k0)) = "master" -> master_2_element[BaseOf(k0)] \o SuffixOf(k0)
      [] KindOf(BaseOf(k0)) = "nocharge" ->
             master_nocharge_2_element[BaseOf(k0)] \o SuffixOf(k0)
      [] OTHER -> k0

\* A call of check_inputs: the first on a table of the caller (pass 1) or the
\* one on its own output (pass 2).
CheckCall(pass) == call.op = "check_inputs" /\ call.pass = pass

\* The columns of the input table of the call in hand, and those among them
\* whose base key is of the given kind.
InCols == DOMAIN call.inputs
InColsOf(kind) == {i \in InCols : KindOf(BaseOf(call.inputs[i].name)) = kind}

\* The places, in the returned table, of the column that was column i of the
\* input table.
OutOf(i) == {j \in DOMAIN call.value : call.value[j].data = i}

\* The name under which input column i was returned.
OutName(i) == call.value[CHOOSE j \in OutOf(i) : TRUE].name

\* The input columns returned under another name, and those not returned.
Substituted == {i \in InCols : OutOf(i) # {} /\ OutName(i) # call.inputs[i].name}
Removed == {i \in InCols : OutOf(i) = {}}

\* C5: check_inputs on its own output returns the same columns in the same
\* order, and substitutes and removes nothing on that second pass.
C5_check_inputs_idempotent ==
    CheckCall(2) =>
        /\ call.outcome = "ok"
        /\ call.value = call.inputs
        /\ Substituted = {} /\ Removed = {}
        /\ call.warnings = <<>>

\* C5, its case: a second pass over a table in which the first pass renamed
\* one column and from which it removed another.
C5_Witness ==
    /\ CheckCall(2)
    /\ Len(call.inputs) < Len(call.first_inputs)
    /\ \E j \in DOMAIN call.inputs :
           call.inputs[j].name \notin Range(columns(call.first_inputs))

\* C6: a column whose base key is exempt, starts with '-' or is an element key
\* keeps its name; otherwise a column whose base key is a master species
\* (looked up first) or a master species without its charge is kept, with the
\* base key replaced by the element it maps to; X_std is renamed to Y_std
\* exactly when X is renamed to Y.
C6_check_inputs_renames ==
    (CheckCall(1) /\ call.outcome = "ok") =>
        /\ \A i \in InCols \ InColsOf("invalid") :
               /\ Cardinality(OutOf(i)) = 1
               /\ OutName(i) = NewNameOf(call.inputs[i].name)
        /\ \A i, j \in InCols \ InColsOf("invalid") :
               call.inputs[j].name = call.inputs[i].name \o UncertaintyId =>
                   OutName(j) = OutName(i) \o UncertaintyId

\* C6, its case: a table that holds X and X_std, both returned renamed.
C6_Witness ==
    /\ CheckCall(1)
    /\ call.outcome = "ok"
    /\ \E i, j \in Substituted :
           /\ call.inputs[j].name = call.inputs[i].name \o UncertaintyId
           /\ OutName(j) = OutName(i) \o UncertaintyId

\* C7: a column whose base key is not valid is absent from the table returned
\* when remove_failures is true, every other column being kept; when it is
\* false the call raises an error that names the key and the database, and
\* the caller's table is as it was.
C7_check_inputs_failures ==
    CheckCall(1) =>
        /\ call.flag =>
               /\ call.outcome = "ok"
               /\ Removed = InColsOf("invalid")
        /\ (~call.flag /\ InColsOf("invalid") # {}) =>
               /\ call.outcome = "ValueError"
               /\ \E i \in InColsOf("invalid") :
                      call.error.key = BaseOf(call.inputs[i].name)
               /\ call.error.database = name_of(path)
               /\ call.caller_inputs = call.inputs

\* C7, its case: remove_failures is true and the table holds a column that is
\* not valid beside one that is.
C7_Witness ==
    /\ CheckCall(1)
    /\ call.flag
    /\ InColsOf("invalid") # {}
    /\ call.value # <<>>

\* C8 as claimed: in the table returned, every column kept under its own name
\* comes before every renamed column.
C8_retained_before_translated ==
    (CheckCall(1) /\ call.outcome = "ok") =>
        \A i \in Substituted, k \in InCols \ (Substituted \cup Removed) :
            \A ji \in OutOf(i), jk \in OutOf(k) : jk < ji

\* C8, amended: the columns of the table returned stand in the order they
\* have in the input table, whether kept under their own name or renamed.
C8_input_order_kept ==
    (CheckCall(1) /\ call.outcome = "ok") =>
        \A j1, j2 \in DOMAIN call.value :
            j1 < j2 => call.value[j1].data < call.value[j2].data

\* C8, its case: a renamed column returned before a column kept under its own
\* name.
C8_Witness ==
    /\ CheckCall(1)
    /\ call.outcome = "ok"
    /\ \E i \in Substituted, k \in InCols \ (Substituted \cup Removed) :
           \E ji \in OutOf(i), jk \in OutOf(k) : ji < jk

\* C9: a call of check_inputs that returns issues exactly one warning when a
\* column was substituted or removed and none otherwise; the warning lists
\* every substituted column as old --> new and every removed column.
C9_one_warning ==
    (call.op = "check_inputs" /\ call.outcome = "ok") =>
        /\ Len(call.warnings) = IF Substituted \cup Removed # {} THEN 1 ELSE 0
        /\ call.warnings # <<>> =>
               /\ \A i \in Substituted :
                      <<call.inputs[i].name, OutName(i)>> \in Range(call.warnings[1].subs)
               /\ \A i \in Removed :
                      call.inputs[i].name \in Range(call.warnings[1].rems)

\* C9, its case: a call that substituted one column and removed another.
C9_Witness ==
    /\ call.op = "check_inputs"
    /\ call.outcome = "ok"
    /\ Substituted # {}
    /\ Removed # {}
    /\ Len(call.warnings) = 1

\* C10: get_target_elements(inputs, drop_OH=True) returns a set of valid
\* elements that holds neither H nor O.
C10_no_H_no_O ==
    (call.op = "get_target_elements" /\ call.flag /\ call.outcome = "ok") =>
        /\ "H" \notin call.value
        /\ "O" \notin call.value
        /\ call.value \subseteq valid_elements

\* C10, its case: H, O or a species that holds them is among the input keys,
\* and the call returns some element.
C10_Witness ==
    /\ call.op = "get_target_elements"
    /\ call.flag
    /\ call.outcome = "ok"
    /\ \E i \in InCols : call.inputs[i].name \in {"H", "O", "H2O"}
    /\ call.value # {}

\* A call of get_target_elements on the keys of master_nocharge_2_element.
MastersQuery ==
    /\ call.op = "get_target_elements"
    /\ Range(columns(call.inputs)) = DOMAIN master_nocharge_2_element
    /\ Len(call.inputs) = Cardinality(DOMAIN master_nocharge_2_element)

\* A column get_target_elements looks up in element_2_master_nocharge: not a
\* generic option, not a flag, not an uncertainty.
LookedUp(k) ==
    ~(k \in Range(exempt_inputs) \/ Char(k, 1) = "-" \/ contains(UncertaintyId, k))

\* C11: get_target_elements on a table whose columns are the keys of
\* master_nocharge_2_element completes without error: check_inputs returns a
\* table, every column of it that is looked up is a key of element_2_master
\* (and so of element_2_master_nocharge), and the elements of the valence-
\* stripped masters of those columns are returned.
C11_masters_resolve ==
    MastersQuery =>
        LET checked == check_inputs(call.inputs, TRUE, UncertaintyId)
            looked == {k \in Range(columns(checked.value)) : LookedUp(k)}
        IN /\ call.outcome = "ok"
           /\ checked.outcome = "ok"
           /\ Len(checked.value) = Len(call.inputs)
           /\ looked \subseteq DOMAIN element_2_master
           /\ looked \subseteq DOMAIN element_2_master_nocharge
           /\ call.value =
                  (UNION {get_elements(element_2_master_nocharge[k]) : k \in looked}
                       \ {"H", "O"}) \cap valid_elements

\* Masters reached through each of the three tables: an element name kept, an
\* uncharged master translated, a valence-stripped master translated.
C11_Witness ==
    /\ MastersQuery
    /\ call.outcome = "ok"
    /\ \E k \in DOMAIN master_nocharge_2_element : k \in DOMAIN element_2_master
    /\ \E k \in DOMAIN master_nocharge_2_element :
           k \notin DOMAIN element_2_master /\ k \in DOMAIN master_2_element
    /\ \E k \in DOMAIN master_nocharge_2_element :
           k \notin DOMAIN element_2_master /\ k \notin DOMAIN master_2_element

\* A generator of get_section made for a name that is not in the index.
UnknownSectionQuery ==
    /\ call.op = "get_section"
    /\ call.section \notin DOMAIN sections

\* C12: get_section for a name that is not in the section index yields no
\* line and fails the same way every time: the first step of its generator
\* raises KeyError, whose message names the section asked for and lists every
\* indexed section name, each once.
C12_unknown_section ==
    UnknownSectionQuery =>
        /\ call.value = <<>>
        /\ call.outcome = IF call.pass = 0 THEN "created" ELSE "KeyError"
        /\ call.pass <= 1
        /\ call.outcome = "KeyError" =>
               /\ call.message.section = call.section
               /\ Range(call.message.secnames) = DOMAIN sections
               /\ Len(call.message.secnames) = Cardinality(DOMAIN sections)

\* The failure for a header the file holds but the index lacks, on a database
\* with several indexed sections.
C12_Witness ==
    /\ UnknownSectionQuery
    /\ call.outcome = "KeyError"
    /\ call.section \in Range(db)
    /\ Cardinality(DOMAIN sections) >= 3

\* find_sections has run.
SectionsFound == call.op = "__init__" => call.pass >= 1

\* The lines of db are numbered from 0.
LineAt(i) == db[i + 1]
IsHeader(i) == sectionhead_match(LineAt(i))

\* C13: every name of the section index maps to a range (start, end) with
\* start < end, the line at start is a header equal to the name, the line at
\* end is a header, no line strictly between them is one, and the ranges
\* [start, end) of distinct names do not overlap.
C13_section_ranges ==
    SectionsFound =>
        /\ \A n \in DOMAIN sections :
               LET start == sections[n][1]
                   end == sections[n][2]
               IN /\ 0 <= start /\ start < end /\ end < Len(db)
                  /\ IsHeader(start) /\ LineAt(start) = n
                  /\ IsHeader(end)
                  /\ \A i \in (start + 1)..(end - 1) : ~IsHeader(i)
        /\ \A n, m \in DOMAIN sections :
               n # m => \/ sections[n][2] <= sections[m][1]
                        \/ sections[m][2] <= sections[n][1]

\* A header the file holds twice, each time followed by a later header: the
\* later range has replaced the earlier one under the name; the file also
\* holds lines that are no header.
C13_Witness ==
    /\ call.op = "__init__" /\ call.pass = 1
    /\ \E n \in DOMAIN sections : \E i \in 1..sections[n][1] : db[i] = n
    /\ \E i \in DOMAIN db : ~sectionhead_match(db[i])

\* C14: no query changes the instance: every step of a query leaves every
\* attribute as construction set it, and adds no attribute (phases and
\* input_str are attributes __init__ does not set).
C14_queries_change_nothing ==
    [][UNCHANGED <<tables, phases, input_str>>]_vars

\* C15: when two make_PHREEQC_input calls with different inputs run
\* interleaved on one instance, the text each call returns is the text built
\* from its own inputs.
C15_each_returns_its_own ==
    \A w \in DOMAIN workers :
        workers[w].pc = "returned" => workers[w].returned = workers[w].text

\* The texts of the lines of a text.
Texts(lines) == [i \in DOMAIN lines |-> lines[i].text]

\* The declarations asked for by the flags o, in the order the specification
\* fixes.
Declarations(o) ==
    (IF o.totals THEN <<"    -totals ">> ELSE <<>>)
        \o (IF o.molalities THEN <<"    -m ">> ELSE <<>>)
        \o (IF o.activities THEN <<"    -a ">> ELSE <<>>)
        \o (IF o.phases THEN <<"    -si ">> ELSE <<>>)

\* C16: generate_SELECTED_OUTPUT returns the header, then -pH, -temperature,
\* -alkalinity and -ionic_strength, then the lines -totals, -m, -a and -si,
\* each present iff its flag is set, in that order; the -m and the -a line
\* hold both H+ and OH-, and -totals holds the targets.  The call returns
\* whenever the saturation indices are not asked for.
C16_selected_output_order ==
    call.op = "generate_SELECTED_OUTPUT" =>
        /\ ~call.options.phases => call.outcome = "ok"
        /\ call.outcome = "ok" =>
               /\ Texts(call.value) =
                      <<"SELECTED_OUTPUT", "    -pH", "    -temperature",
                        "    -alkalinity", "    -ionic_strength">>
                          \o Declarations(call.options)
               /\ \A i \in DOMAIN call.value :
                      /\ call.value[i].text \in {"    -m ", "    -a "} =>
                             {"H+", "OH-"} \subseteq call.value[i].items
                      /\ call.value[i].text = "    -totals " =>
                             call.value[i].items = call.targets

\* All four declarations; molalities and saturation indices without the
\* other two.
C16_Witness ==
    /\ call.op = "generate_SELECTED_OUTPUT"
    /\ call.outcome = "ok"
    /\ call.options.molalities /\ call.options.phases
    /\ ~call.options.totals /\ ~call.options.activities
    /\ Len(call.value) = 7
    /\ \E i \in DOMAIN call.value :
           call.value[i].text = "    -m " /\ Cardinality(call.value[i].items) > 2

\* A phase of the list is an entry of the PHASES section.
IsPhase(p) == p[1] \in DOMAIN PhaseEntries

\* A call of add_EQUILIBRIUM_PHASES on a flat list that holds one phase the
\* indexed PHASES section does not hold, the others being entries of it.
OneUnknownPhase ==
    /\ call.op = "add_EQUILIBRIUM_PHASES"
    /\ call.eqphases.flat
    /\ "PHASES" \in DOMAIN sections
    /\ Len(SelectSeq(call.eqphases.lists[1], LAMBDA p : ~IsPhase(p))) = 1

\* The SI of the lists, as str() writes them.
SIText(si) == IF si = 0 THEN "0" ELSE "12"

\* C17: add_EQUILIBRIUM_PHASES on a flat list of N phases of the database and
\* one unknown phase does not fail and returns one block: the line
\* EQUILIBRIUM_PHASES, then one line for each of the N phases, in the order of
\* the list (for N = 0 a single line of blanks, which names no phase); it
\* prints one 'removed' message, which names the unknown phase.
C17_one_unknown_phase ==
    OneUnknownPhase =>
        LET given == call.eqphases.lists[1]
            valid == SelectSeq(given, IsPhase)
            unknown == SelectSeq(given, LAMBDA p : ~IsPhase(p))
        IN /\ call.outcome = "ok"
           /\ Len(call.value) = 1
           /\ Head(call.value[1]).text = "EQUILIBRIUM_PHASES"
           /\ Texts(Tail(call.value[1])) =
                  IF valid = <<>> THEN <<"   ">>
                  ELSE [i \in DOMAIN valid |->
                           "   " \o valid[i][1] \o "  " \o SIText(valid[i][2])]
           /\ call.printed = <<unknown[1][1]>>

\* Two phases of the database around the unknown one.
C17_Witness ==
    /\ OneUnknownPhase
    /\ call.outcome = "ok"
    /\ Len(call.eqphases.lists[1]) = 3
    /\ ~IsPhase(call.eqphases.lists[1][2])
    /\ Len(call.value[1]) = 3

\* The line opens a SOLUTION block.
IsSolutionHeader(t) == Len(t) >= 9 /\ SubSeq(t, 1, 9) = "SOLUTION "

\* The lines of a text that open a block or end the input, in their order.
BlockHeaders(lines) ==
    SelectSeq(Texts(lines),
              LAMBDA t : IsSolutionHeader(t) \/ t = "SELECTED_OUTPUT" \/ t = "END")

\* The rows the cells of a text are taken from, in the order of the text.
CellRows(lines) ==
    LET cells == SelectSeq(lines, LAMBDA l : l.cell # <<>>)
    IN [i \in DOMAIN cells |-> cells[i].cell[2]]

\* A call of make_PHREEQC_input without equilibrium phases that returned.
MadeWithoutPhases ==
    /\ call.op = "make_PHREEQC_input"
    /\ call.eqphases.none
    /\ call.outcome = "ok"

\* The table of the example: Ca, Mg with its uncertainty, and temperature, in
\* two rows, the targets not given and the totals asked for, on a database
\* that holds Ca and Mg as elements (on another, check_inputs removes the
\* two columns with a warning).
TwoRowComposition ==
    /\ MadeWithoutPhases
    /\ {"Ca", "Mg"} \subseteq DOMAIN element_2_master
    /\ call.inputs = Table(<<"Ca", "Mg", "Mg_std", "temperature">>)
    /\ Len(call.index) = 2
    /\ call.targets = None
    /\ call.options.totals

\* C18: without equilibrium phases the text make_PHREEQC_input returns holds
\* one SOLUTION block for each row of the table, in the order of the rows
\* (each headed by the label of its row and holding the cells of that row),
\* then one SELECTED_OUTPUT block, then one END, which is its last line.  For
\* the two rows of Ca, Mg, Mg_std and temperature these are two SOLUTION
\* blocks and one SELECTED_OUTPUT block whose -totals line holds Ca and Mg;
\* the call returns on a database that holds both as elements, when its
\* SOLUTION_SPECIES and PHASES sections are indexed and the flags are the
\* defaults.
C18_solutions_then_output_then_end ==
    /\ MadeWithoutPhases =>
           LET rows == Len(call.index)
               per_row == Len(CellRows(call.value)) \div rows
           IN /\ BlockHeaders(call.value) =
                     [r \in 1..rows |-> "SOLUTION " \o str_int(call.index[r])]
                         \o <<"SELECTED_OUTPUT", "END">>
              /\ call.value[Len(call.value)].text = "END"
              /\ CellRows(call.value) =
                     [i \in 1..(rows * per_row) |->
                         call.index[((i - 1) \div per_row) + 1]]
    /\ TwoRowComposition =>
           LET totals == SelectSeq(call.value, LAMBDA l : l.text = "    -totals ")
           IN /\ Len(SelectSeq(Texts(call.value), IsSolutionHeader)) = 2
              /\ Len(totals) = 1
              /\ {"Ca", "Mg"} \subseteq totals[1].items
    /\ ( /\ call.op = "make_PHREEQC_input"
         /\ call.eqphases.none
         /\ call.inputs = Table(<<"Ca", "Mg", "Mg_std", "temperature">>)
         /\ call.targets = None
         /\ call.options = [totals |-> TRUE, molalities |-> TRUE,
                            activities |-> TRUE, phases |-> TRUE,
                            allow_HCO |-> TRUE]
         /\ {"Ca", "Mg"} \subseteq DOMAIN element_2_master
         /\ {"SOLUTION_SPECIES", "PHASES"} \subseteq DOMAIN sections )
       => call.outcome = "ok"

\* The two-row table of the example with the default flags: two SOLUTION
\* blocks of four cells each, the uncertainty column among them.
C18_Witness ==
    /\ TwoRowComposition
    /\ call.options.phases /\ call.options.molalities
    /\ Len(CellRows(call.value)) = 8
    /\ Len(BlockHeaders(call.value)) = 4
    /\ \E i \in DOMAIN call.value : call.value[i].text = "    -si "

\* The names of the bundled databases, as the file system of the call has
\* them.
BundledOf(files) == {name_of(f) : f \in glob_dat(DOMAIN files)}

\* _database_path_handler has run in the call datParser(database).
Resolved == call.op = "datParser" /\ call.pass >= 1

\* No attribute of the instance is set.
NoInstance ==
    /\ path = "" /\ name = "" /\ db = <<>> /\ sections = EmptyDict
    /\ master_species_table = EmptyDict /\ exempt_inputs = <<>>

\* C19: for a bundled database n, datParser(n), datParser(n + '.dat') and
\* datParser(the path of the bundled file) all resolve to the path of the
\* bundled file; a name that is not an existing path and not the name of a
\* bundled database (bare or with the extension .dat) fails with ValueError,
\* and no instance is made.
C19_database_path_resolution ==
    Resolved =>
        /\ \A n \in BundledOf(call.files) :
               call.database \in {n, n \o ".dat", resource_filename(n)} =>
                   call.outcome = "ok" /\ path = resource_filename(n)
        /\ ( /\ call.database \notin DOMAIN call.files
             /\ \A n \in BundledOf(call.files) :
                    call.database \notin {n, n \o ".dat"} )
           => call.outcome = "ValueError" /\ NoInstance

\* C20: for every element symbol E of valid_elements, decompose_molecule(E)
\* returns exactly {E: 1}.
C20_element_decomposes_to_itself ==
    ( /\ call.op = "decompose_molecule"
      /\ call.returned
      /\ call.molecule \in valid_elements
      /\ call.n = 1 )
    => call.comp = (call.molecule :> 1) /\ call.valence = ""

\* A call decompose_molecule(molecule) that has returned.
Decomposed(molecule) ==
    /\ call.op = "decompose_molecule"
    /\ call.returned
    /\ call.molecule = molecule
    /\ call.n = 1

\* C21: decompose_molecule('CO2') returns {C: 1, O: 2}, and
\* decompose_molecule('B(OH)4-') returns {B: 1, O: 4, H: 4, valence: '-1'}:
\* a charge sign at the end that no digit follows is recorded under the
\* valence key as charge 1.
C21_decompose_examples ==
    /\ Decomposed("CO2") =>
           call.comp = ("C" :> 1 @@ "O" :> 2) /\ call.valence = ""
    /\ Decomposed("B(OH)4-") =>
           call.comp = ("B" :> 1 @@ "O" :> 4 @@ "H" :> 4) /\ call.valence = "-1"

\* The lines of the SOLUTION_MASTER_SPECIES section, as whitespace-separated
\* tokens.
MasterLines ==
    LET r == sections["SOLUTION_MASTER_SPECIES"]
    IN [j \in 1..(r[2] - r[1] - 1) |-> split_ws(db[r[1] + 1 + j])]

\* The master species of element e: the second token of e's line (of the last
\* such line, were there several).
MasterOf(e) ==
    LET at == {j \in DOMAIN MasterLines : MasterLines[j][1] = e}
    IN MasterLines[CHOOSE j \in at : \A k \in at : k <= j][2]

\* m without the charge marker it ends in: a sign, or a sign and a digit.
TrailingChargeRemoved(m) ==
    LET n == Len(m)
    IN IF n >= 1 /\ Char(m, n) \in {"+", "-"} THEN SubSeq(m, 1, n - 1)
       ELSE IF n >= 2 /\ Char(m, n) \in DIGIT /\ Char(m, n - 1) \in {"+", "-"}
       THEN SubSeq(m, 1, n - 2)
       ELSE m

\* C22: after construction the keys of element_2_master are the element keys
\* of the SOLUTION_MASTER_SPECIES section, element_2_master[e] is the second
\* token of e's line, element_2_master_nocharge[e] is that master species
\* with only the charge marker [+-][0-9]? at its end removed, and the keys of
\* master_nocharge_2_element are these stripped strings.
C22_masters_stripped_at_end ==
    call.op = "idle" =>
        /\ DOMAIN element_2_master = {MasterLines[j][1] : j \in DOMAIN MasterLines}
        /\ DOMAIN element_2_master_nocharge = DOMAIN element_2_master
        /\ \A e \in DOMAIN element_2_master :
               /\ element_2_master[e] = MasterOf(e)
               /\ element_2_master_nocharge[e] = TrailingChargeRemoved(MasterOf(e))
        /\ DOMAIN master_nocharge_2_element =
               {TrailingChargeRemoved(MasterOf(e)) : e \in DOMAIN element_2_master}

\* The places (from 0) of the header lines of db, and the last of them.
HeaderPlaces == {i \in 0..(Len(db) - 1) : IsHeader(i)}
LastHeader == CHOOSE i \in HeaderPlaces : \A j \in HeaderPlaces : j <= i

SpeciesOf(side) == SelectSeq(split_ws(side), IsSpecies)

\* C24: for a reaction line (two sides), the line made by joining the
\* reactants reacsplit returns with ' + ', the products with ' + ' and the
\* two with ' = ' holds on each side the species of the given line, in their
\* order, and reacsplit of the line made returns the same two lists.
C24_reacsplit_rejoined ==
    (call.op = "reacsplit" /\ call.pass = 2) =>
        /\ Len(call.value) = 2
        /\ call.again = call.value
        /\ \A k \in 1..2 :
               SpeciesOf(split(call.rejoined, "=")[k])
                   = SpeciesOf(split(call.reac, "=")[k])

\* A line with a count, several blanks, a tab inside a token and blanks at
\* its end, which the line made differs from.
C24_Witness ==
    /\ call.op = "reacsplit" /\ call.pass = 2
    /\ call.rejoined # call.reac
    /\ Len(call.value[1]) = 3
    /\ \E t \in Range(call.value[2]) : contains("\t", t)

\* The columns of the input table of the call in hand that bear an option
\* name.
OptionCols == {i \in InCols : call.inputs[i].name \in OptionNames}

\* C25: every option name written in the list of __init__ is exempt: a column
\* of that name is returned by check_inputs under its name, a table of such
\* columns alone is returned as it is without a warning, whatever
\* remove_failures is, and get_target_elements on such a table returns no
\* element and warns of nothing.
C25_written_options_exempt ==
    /\ (CheckCall(1) /\ call.outcome = "ok") =>
           \A i \in OptionCols :
               Cardinality(OutOf(i)) = 1 /\ OutName(i) = call.inputs[i].name
    /\ (CheckCall(1) /\ OptionCols = InCols) =>
           /\ call.outcome = "ok"
           /\ call.value = call.inputs
           /\ call.warnings = <<>>
    /\ (call.op = "get_target_elements" /\ OptionCols = InCols) =>
           /\ call.outcome = "ok"
           /\ call.value = {}
           /\ call.warnings = <<>>

\* C26: after any sequence of change_database calls, the input the wrapper's
\* attribute make_PHREEQC_input returns is made against the database self.db
\* names at that moment, the one run() uses: the datParser that made the text
\* has the path of self.db.
C26_attribute_follows_db ==
    call.op = "make_PHREEQC_input" => call.made_by = self_db.path

====
